---- MODULE Spec2Model ----
(***************************************************************************)
(* Verification model of srt-go: domain filter, HTTP proxy, Seatbelt       *)
(* profile generation/validation and the sandbox Manager lifecycle.        *)
(* Strings are sequences of one-character strings.                         *)
(***************************************************************************)
EXTENDS Integers, Sequences, FiniteSets, TLC

VARIABLES
    (* ---- network.DomainFilter (internal/network/filter.go) ---- *)
    filterArgs,      \* the arguments NewDomainFilter was called with
    defaultPolicy,   \* DomainFilter.defaultPolicy
    allowed,         \* DomainFilter.allowed  (sequence of DomainPattern)
    denied,          \* DomainFilter.denied   (sequence of DomainPattern)
    domain,          \* argument of the last IsAllowed call
    isAllowedResult, \* result of the last IsAllowed call ("none" before any call)
    (* ---- profile generation and validation (internal/sandbox/seatbelt.go) ---- *)
    genArgs,         \* the arguments of GenerateSeatbeltProfile
    genState,        \* "args" | "generated" | "failed"
    profile,         \* the profile text returned ("" on error)
    validation,      \* "none" or the result of ValidateProfile
    dynamicRan,      \* TRUE once ValidateProfile has invoked sandbox-exec
    (* ---- network.HTTPProxy (internal/network/http_proxy.go) ---- *)
    request,         \* the request being handled: [method, host], or <<>> before one arrives
    response         \* what the handler did: [status, marker, dialled, established]

filterVars == <<filterArgs, defaultPolicy, allowed, denied, domain, isAllowedResult>>
profileVars == <<genArgs, genState, profile, validation, dynamicRan>>
proxyVars == <<request, response>>

(***************************************************************************)
(* Bounds                                                                  *)
(***************************************************************************)
MaxDomainLen == 3      \* longest domain string handed to IsAllowed
MaxDomainList == 1     \* longest allowedDomains / deniedDomains list
MaxPathEntries == 2    \* path entries of one configuration, over its four lists
MaxHostLen == 2        \* longest host name of a proxied request

(***************************************************************************)
(* String helpers (package strings)                                        *)
(***************************************************************************)
SeqsUpTo(S, n) == UNION { [1..k -> S] : k \in 0..n }

\* strings.ToLower on the letters of the model alphabet
LowerChar(c) == IF c = "A" THEN "a" ELSE IF c = "B" THEN "b" ELSE c
ToLower(s) == [i \in 1..Len(s) |-> LowerChar(s[i])]

\* strings.LastIndex(s, c) for a one-character c: 0-based index, -1 if absent
LastIndex(s, c) ==
    IF \E i \in 1..Len(s) : s[i] = c
    THEN (CHOOSE i \in 1..Len(s) : s[i] = c /\ \A j \in (i+1)..Len(s) : s[j] # c) - 1
    ELSE -1

\* strings.TrimSpace
TrimLeft(s) ==
    IF \A i \in 1..Len(s) : s[i] = " " THEN <<>>
    ELSE LET f == CHOOSE i \in 1..Len(s) : s[i] # " " /\ \A j \in 1..(i-1) : s[j] = " "
         IN SubSeq(s, f, Len(s))
TrimRight(s) ==
    IF \A i \in 1..Len(s) : s[i] = " " THEN <<>>
    ELSE LET l == CHOOSE i \in 1..Len(s) : s[i] # " " /\ \A j \in (i+1)..Len(s) : s[j] = " "
         IN SubSeq(s, 1, l)
TrimSpace(s) == TrimRight(TrimLeft(s))

\* strings.Contains(s, sub)
Contains(s, sub) ==
    \E i \in 1..(Len(s) - Len(sub) + 1) : SubSeq(s, i, i + Len(sub) - 1) = sub

\* strings.ContainsAny(s, chars)
ContainsAny(s, chars) == \E i \in 1..Len(s) : s[i] \in chars

(***************************************************************************)
(* Domain filter                                                           *)
(***************************************************************************)
DomainChars == {"a", "A", ".", ":", " "}
Domains == SeqsUpTo(DomainChars, MaxDomainLen)

\* Pattern strings a configuration may list (network.allowedDomains / deniedDomains)
DomainPatternPool ==
    { <<"a">>, <<"A", " ">>, <<"*", ".", "a">>, <<"a", ".", "*">>, <<"a", ":", "a">> }
DomainLists == SeqsUpTo(DomainPatternPool, MaxDomainList)
Policies == {"allow", "deny", "", "block"}

\* normaliseDomain: cut at the last ':', then lower-case and trim
normaliseDomain(d) ==
    LET idx == LastIndex(d, ":")
        cut == IF idx # -1 THEN SubSeq(d, 1, idx) ELSE d
    IN ToLower(TrimSpace(cut))

\* glob.Glob.Match for patterns whose only metacharacter is '*'
RECURSIVE GlobMatch(_, _)
GlobMatch(p, s) ==
    IF p = <<>> THEN s = <<>>
    ELSE IF Head(p) = "*"
         THEN \E k \in 0..Len(s) : GlobMatch(Tail(p), SubSeq(s, k + 1, Len(s)))
         ELSE s # <<>> /\ Head(s) = Head(p) /\ GlobMatch(Tail(p), Tail(s))

\* compileDomainPattern
compileDomainPattern(raw) ==
    LET pattern == ToLower(TrimSpace(raw))
    IN [pattern |-> pattern, isGlob |-> Contains(pattern, <<"*">>)]

\* DomainPattern.Matches
Matches(p, d) ==
    LET dom == normaliseDomain(d)
    IN IF p.isGlob THEN GlobMatch(p.pattern, dom) ELSE dom = p.pattern

\* NewDomainFilter taking an unknown policy value as deny
NewDomainFilterFailClosed(policy, allowedDomains, deniedDomains) ==
    [defaultPolicy |-> IF policy # "allow" THEN "deny" ELSE policy,
     allowed |-> [i \in 1..Len(allowedDomains) |-> compileDomainPattern(allowedDomains[i])],
     denied  |-> [i \in 1..Len(deniedDomains)  |-> compileDomainPattern(deniedDomains[i])]]

\* NewDomainFilter
NewDomainFilter(policy, allowedDomains, deniedDomains) ==
    [defaultPolicy |-> IF policy # "allow" /\ policy # "deny" THEN "allow" ELSE policy,
     allowed |-> [i \in 1..Len(allowedDomains) |-> compileDomainPattern(allowedDomains[i])],
     denied  |-> [i \in 1..Len(deniedDomains)  |-> compileDomainPattern(deniedDomains[i])]]

\* IsAllowed with the two list scans swapped (allow list consulted first)
IsAllowedAllowFirst(f, d) ==
    LET dom == normaliseDomain(d)
    IN IF \E i \in 1..Len(f.allowed) : Matches(f.allowed[i], dom) THEN TRUE
       ELSE IF \E i \in 1..Len(f.denied) : Matches(f.denied[i], dom) THEN FALSE
       ELSE f.defaultPolicy = "allow"

\* DomainFilter.IsAllowed
IsAllowed(f, d) ==
    LET dom == normaliseDomain(d)
    IN IF \E i \in 1..Len(f.denied) : Matches(f.denied[i], dom) THEN FALSE
       ELSE IF \E i \in 1..Len(f.allowed) : Matches(f.allowed[i], dom) THEN TRUE
       ELSE f.defaultPolicy = "allow"

Filter == [defaultPolicy |-> defaultPolicy, allowed |-> allowed, denied |-> denied]

FilterInit ==
    /\ \E pol \in Policies, al \in DomainLists, dl \in DomainLists :
         LET f == NewDomainFilter(pol, al, dl)
         IN /\ filterArgs = [defaultPolicy |-> pol, allowedDomains |-> al,
                             deniedDomains |-> dl]
            /\ defaultPolicy = f.defaultPolicy
            /\ allowed = f.allowed
            /\ denied = f.denied
    /\ domain = <<>>
    /\ isAllowedResult = "none"

\* a call of IsAllowed on the constructed filter (the function is pure, so one
\* call per behaviour covers every call)
CallIsAllowed ==
    \E d \in Domains :
        /\ isAllowedResult = "none"
        /\ domain' = d
        /\ isAllowedResult' = IF IsAllowed(Filter, d) THEN "true" ELSE "false"
        /\ UNCHANGED <<filterArgs, defaultPolicy, allowed, denied>>

(***************************************************************************)
(* Paths (internal/filesystem/paths.go)                                    *)
(***************************************************************************)
Home == <<"/", "h">>     \* os.UserHomeDir()
Cwd == <<"/", "w">>      \* the working directory filepath.Abs resolves against

\* strings.Split(s, sep) for a one-character sep
RECURSIVE SplitAcc(_, _, _, _)
SplitAcc(s, sep, cur, acc) ==
    IF s = <<>> THEN Append(acc, cur)
    ELSE IF Head(s) = sep THEN SplitAcc(Tail(s), sep, <<>>, Append(acc, cur))
    ELSE SplitAcc(Tail(s), sep, Append(cur, Head(s)), acc)
Split(s, sep) == SplitAcc(s, sep, <<>>, <<>>)

\* strings.Join(parts, sep)
RECURSIVE JoinSeq(_, _)
JoinSeq(parts, sep) ==
    IF parts = <<>> THEN <<>>
    ELSE IF Len(parts) = 1 THEN parts[1]
    ELSE parts[1] \o sep \o JoinSeq(Tail(parts), sep)

\* the element stack filepath.Clean keeps while it scans the path
RECURSIVE CleanStack(_, _, _)
CleanStack(segs, rooted, stack) ==
    IF segs = <<>> THEN stack
    ELSE LET seg == Head(segs)
             rest == Tail(segs)
         IN IF seg = <<>> \/ seg = <<".">> THEN CleanStack(rest, rooted, stack)
            ELSE IF seg = <<".", ".">>
                 THEN IF stack # <<>> /\ stack[Len(stack)] # <<".", ".">>
                      THEN CleanStack(rest, rooted, SubSeq(stack, 1, Len(stack) - 1))
                      ELSE IF rooted THEN CleanStack(rest, rooted, stack)
                      ELSE CleanStack(rest, rooted, Append(stack, seg))
                 ELSE CleanStack(rest, rooted, Append(stack, seg))

\* filepath.Clean
Clean(path) ==
    LET rooted == path # <<>> /\ Head(path) = "/"
        body == JoinSeq(CleanStack(Split(path, "/"), rooted, <<>>), <<"/">>)
    IN IF rooted THEN <<"/">> \o body
       ELSE IF body = <<>> THEN <<".">> ELSE body

\* filepath.Join(a, b): empty elements are ignored, the result is cleaned
JoinPath(a, b) ==
    IF a = <<>> /\ b = <<>> THEN <<>>
    ELSE IF a = <<>> THEN Clean(b)
    ELSE IF b = <<>> THEN Clean(a)
    ELSE Clean(a \o <<"/">> \o b)

\* filepath.Abs
Abs(path) == IF path # <<>> /\ Head(path) = "/" THEN Clean(path) ELSE JoinPath(Cwd, path)

\* NormalisePath on a file system without symbolic links (EvalSymlinks returns
\* the absolute path it is given, or the path does not exist)
NormalisePath(path) ==
    Abs(IF path # <<>> /\ Head(path) = "~" THEN JoinPath(Home, Tail(path)) ELSE path)

\* ContainsGlob
ContainsGlob(path) == ContainsAny(path, {"*", "?", "[", "{"})

\* NormalisePaths
NormalisePaths(paths) ==
    [i \in 1..Len(paths) |->
        LET path == IF paths[i] # <<>> /\ Head(paths[i]) = "~"
                    THEN JoinPath(Home, Tail(paths[i])) ELSE paths[i]
        IN IF ContainsGlob(path) THEN path ELSE NormalisePath(path)]

(***************************************************************************)
(* Glob compiler (internal/filesystem/globs.go)                            *)
(***************************************************************************)
RegexSpecial == {".", "+", "^", "$", "(", ")", "|", "\\"}

\* index (1-based) of the first ']' at or after position j, or Len+1
RECURSIVE FindClose(_, _)
FindClose(pattern, j) ==
    IF j > Len(pattern) \/ pattern[j] = "]" THEN j ELSE FindClose(pattern, j + 1)

\* the brace scan: advances j while depth > 0; returns <<j, depth>>
RECURSIVE BraceScan(_, _, _)
BraceScan(pattern, j, depth) ==
    IF j <= Len(pattern) /\ depth > 0
    THEN BraceScan(pattern, j + 1,
                   IF pattern[j] = "{" THEN depth + 1
                   ELSE IF pattern[j] = "}" THEN depth - 1 ELSE depth)
    ELSE <<j, depth>>

TrimPrefix(s, c) == IF s # <<>> /\ Head(s) = c THEN Tail(s) ELSE s
TrimSuffix(s, c) == IF s # <<>> /\ s[Len(s)] = c THEN SubSeq(s, 1, Len(s) - 1) ELSE s

GlobError == [err |-> TRUE, re |-> <<>>]

RECURSIVE GlobToRegex(_)
RECURSIVE GlobLoop(_, _, _)
RECURSIVE GlobParts(_, _, _)

\* one compiled alternative appended to the group: anchors stripped, '|' between
AddPart(parts, idx, acc, converted) ==
    IF converted.err THEN GlobError
    ELSE GlobParts(parts, idx + 1,
             acc \o (IF idx > 1 THEN <<"|">> ELSE <<>>)
                 \o TrimSuffix(TrimPrefix(converted.re, "^"), "$"))

\* the alternatives of one brace group, each compiled recursively
GlobParts(parts, idx, acc) ==
    IF idx > Len(parts) THEN [err |-> FALSE, re |-> acc]
    ELSE AddPart(parts, idx, acc, GlobToRegex(parts[idx]))

\* the group "(a|b|c)" written to the builder, scanning resumed at j
AfterGroup(pattern, j, result, alts) ==
    IF alts.err THEN GlobError
    ELSE GlobLoop(pattern, j, result \o <<"(">> \o alts.re \o <<")">>)

\* the brace case once the scan has returned sc = <<j, depth>>
BraceCase(pattern, i, result, sc) ==
    IF sc[2] # 0 THEN GlobError
    ELSE AfterGroup(pattern, sc[1], result,
                    GlobParts(Split(SubSeq(pattern, i + 1, sc[1] - 2), ","), 1, <<>>))

\* the character class case of a compiler that copies an unclosed class
ClassCaseUnchecked(pattern, i, result, j) ==
    IF j > Len(pattern) THEN GlobLoop(pattern, j, result \o SubSeq(pattern, i, Len(pattern)))
    ELSE GlobLoop(pattern, j + 1, result \o SubSeq(pattern, i, j))

\* the character class case once the scan has returned j
ClassCase(pattern, i, result, j) ==
    IF j > Len(pattern) THEN GlobError
    ELSE GlobLoop(pattern, j + 1, result \o SubSeq(pattern, i, j))

\* the step of a compiler whose single '*' is written like '**'
StepOfStarCrossing(pattern, i) ==
    LET ch == pattern[i]
    IN CASE ch = "*" ->
              IF i + 1 <= Len(pattern) /\ pattern[i + 1] = "*"
              THEN IF i + 2 <= Len(pattern) /\ pattern[i + 2] = "/"
                   THEN <<i + 3, <<".", "*">> >>
                   ELSE <<i + 2, <<".", "*">> >>
              ELSE <<i + 1, <<".", "*">> >>
         [] ch = "?" -> <<i + 1, <<"[", "^", "/", "]">> >>
         [] ch \in RegexSpecial -> <<i + 1, <<"\\", ch>> >>
         [] OTHER -> <<i + 1, <<ch>> >>

\* the next position and the text written for the character at i
\* (for every case but '[' and '{')
StepOf(pattern, i) ==
    LET ch == pattern[i]
    IN CASE ch = "*" ->
              IF i + 1 <= Len(pattern) /\ pattern[i + 1] = "*"
              THEN IF i + 2 <= Len(pattern) /\ pattern[i + 2] = "/"
                   THEN <<i + 3, <<".", "*">> >>
                   ELSE <<i + 2, <<".", "*">> >>
              ELSE <<i + 1, <<"[", "^", "/", "]", "*">> >>
         [] ch = "?" -> <<i + 1, <<"[", "^", "/", "]">> >>
         [] ch \in RegexSpecial -> <<i + 1, <<"\\", ch>> >>
         [] OTHER -> <<i + 1, <<ch>> >>

Advance(pattern, result, step) == GlobLoop(pattern, step[1], result \o step[2])

\* the scanning loop of GlobToRegex; i is the 1-based position, result the builder
GlobLoop(pattern, i, result) ==
    IF i > Len(pattern) THEN [err |-> FALSE, re |-> Append(result, "$")]
    ELSE IF pattern[i] = "[" THEN ClassCase(pattern, i, result, FindClose(pattern, i + 1))
    ELSE IF pattern[i] = "{" THEN BraceCase(pattern, i, result, BraceScan(pattern, i + 1, 1))
    ELSE Advance(pattern, result, StepOf(pattern, i))

\* GlobToRegex: [err, re]
GlobToRegex(raw) ==
    LET pattern == IF ~ContainsGlob(raw) THEN NormalisePath(raw) ELSE raw
    IN GlobLoop(pattern, 1, <<"^">>)

(***************************************************************************)
(* Seatbelt profile (internal/sandbox/seatbelt.go).  The profile text is a *)
(* sequence of tokens: every parenthesis, quote, newline and every         *)
(* character of a path or regex is a token of its own; the fixed words of  *)
(* the generator ("deny ", "file-write*", "version 1", ...) are one token. *)
(***************************************************************************)
NL == "\n"
Quote == "\""

\* fmt.Sprintf("(%s %s (regex #\"%s\"))\n") / "(%s %s (subpath \"%s\"))\n"
FilterRule(action, op, filterKind, arg) ==
    <<"(", action, op, " ", "(", filterKind, Quote>> \o arg \o <<Quote, ")", ")", NL>>

\* "(allow process-fork)\n" and the other rules without a filter
BareRule(action, op) == <<"(", action, op, ")", NL>>

\* the rule emitted for a glob entry whose compilation gave regex
RECURSIVE PathRules(_, _, _, _, _)
GlobRule(action, op, paths, i, acc, regex) ==
    IF regex.err THEN [err |-> TRUE, text |-> <<>>, glob |-> paths[i]]
    ELSE PathRules(action, op, paths, i + 1, acc \o FilterRule(action, op, "regex #", regex.re))

\* the loop over one path list: a regex rule for a glob, a subpath rule otherwise
PathRules(action, op, paths, i, acc) ==
    IF i > Len(paths) THEN [err |-> FALSE, text |-> acc, glob |-> <<>>]
    ELSE IF ContainsGlob(paths[i])
         THEN GlobRule(action, op, paths, i, acc, GlobToRegex(paths[i]))
         ELSE PathRules(action, op, paths, i + 1,
                        acc \o FilterRule(action, op, "subpath ", paths[i]))

\* the comment line, the rules and the blank line of one block
CommentedBlock(comment, rules) ==
    [err |-> rules.err, text |-> <<comment, NL>> \o rules.text \o <<NL>>, glob |-> rules.glob]

\* a commented block of path rules, emitted only for a non-empty list
PathBlock(comment, action, op, paths) ==
    IF Len(paths) > 0
    THEN CommentedBlock(comment, PathRules(action, op, paths, 1, <<>>))
    ELSE [err |-> FALSE, text |-> <<>>, glob |-> <<>>]

\* seatbelt.go 20-38: version declaration and process grants
ProcessSection(a) ==
    <<"(", "version 1", ")", NL, NL>>
    \o <<"; Process operations", NL>>
    \o BareRule("allow ", "process-exec*")
    \o (IF a.allowFork THEN BareRule("allow ", "process-fork") ELSE <<>>)
    \o (IF a.allowSysctlRead THEN BareRule("allow ", "sysctl-read") ELSE <<>>)
    \o (IF a.allowMachLookup THEN BareRule("allow ", "mach-lookup") ELSE <<>>)
    \o (IF a.allowPosixShm THEN BareRule("allow ", "ipc-posix-shm*") ELSE <<>>)
    \o <<NL>>

\* seatbelt.go 40-52: network
NetworkSection(a) ==
    IF a.enableProxy
    THEN <<"; Network - deny all except proxies", NL>>
         \o BareRule("deny ", "network*")
         \o FilterRule("allow ", "network*", "remote ip ", <<"localhost:", ToString(a.httpProxyPort)>>)
         \o FilterRule("allow ", "network*", "remote ip ", <<"localhost:", ToString(a.socksProxyPort)>>)
         \o <<NL>>
    ELSE <<"; Network - deny all", NL>> \o BareRule("deny ", "network*") \o <<NL>>

\* a section: its comment, its blanket rule, a blank line and its rule blocks
Section(comment, blanket, first, second) ==
    [err |-> first.err \/ second.err,
     text |-> <<comment, NL>> \o blanket \o <<NL>> \o first.text \o second.text,
     glob |-> IF first.err THEN first.glob ELSE second.glob]

NoBlock == [err |-> FALSE, text |-> <<>>, glob |-> <<>>]

\* seatbelt.go 54-72: file reads
ReadSection(a) ==
    Section("; Filesystem reads - allow by default", BareRule("allow ", "file-read*"),
            PathBlock("; Deny specific read paths", "deny ", "file-read*", a.denyReadPaths),
            NoBlock)

\* the write section with the two rule blocks exchanged
WriteSectionDenyFirst(a) ==
    Section("; Filesystem writes - deny by default", BareRule("deny ", "file-write*"),
            PathBlock("; Deny specific writes within allowed paths", "deny ", "file-write*", a.denyWritePaths),
            PathBlock("; Allow writes to specific paths", "allow ", "file-write*", a.allowWritePaths))

\* seatbelt.go 74-109: file writes
WriteSection(a) ==
    Section("; Filesystem writes - deny by default", BareRule("deny ", "file-write*"),
            PathBlock("; Allow writes to specific paths", "allow ", "file-write*", a.allowWritePaths),
            PathBlock("; Deny specific writes within allowed paths", "deny ", "file-write*", a.denyWritePaths))

\* seatbelt.go 111-129: unlink
UnlinkSection(a) ==
    Section("; File unlink/deletion - deny by default", BareRule("deny ", "file-write-unlink"),
            PathBlock("; Allow unlink in specific paths", "allow ", "file-write-unlink", a.allowUnlinkPaths),
            NoBlock)

\* the sections in the order the builder receives them; on a glob error the
\* text is "" and the error quotes the pattern of the first failing list
Assemble(head, r, w, u) ==
    IF r.err \/ w.err \/ u.err
    THEN [err |-> TRUE, text |-> <<>>,
          glob |-> IF r.err THEN r.glob ELSE IF w.err THEN w.glob ELSE u.glob]
    ELSE [err |-> FALSE, text |-> head \o r.text \o w.text \o u.text, glob |-> <<>>]

\* GenerateSeatbeltProfile: [err, text, glob]
GenerateSeatbeltProfile(a) ==
    Assemble(ProcessSection(a) \o NetworkSection(a),
             ReadSection(a), WriteSection(a), UnlinkSection(a))

\* the parentheses of a text, in order (every other character leaves the
\* counter of hasBalancedParentheses alone)
IsParen(c) == c = "(" \/ c = ")"
Parens(text) == SelectSeq(text, IsParen)

\* the counter of hasBalancedParentheses after the first k parentheses
ParenCount(ps, k) == 2 * Cardinality({ i \in 1..k : ps[i] = "(" }) - k

\* hasBalancedParentheses: the counter never goes negative and ends at zero
hasBalancedParentheses(text) ==
    \A ps \in {Parens(text)} :
       /\ \A k \in 1..Len(ps) : ParenCount(ps, k) >= 0
       /\ ParenCount(ps, Len(ps)) = 0

\* the static phase of ValidateProfile: "ok" or the error it returns
StaticValidate(text) ==
    IF ~Contains(text, <<"(", "version 1", ")">>) THEN "missing version"
    ELSE IF ~hasBalancedParentheses(text) THEN "unbalanced parentheses"
    ELSE IF ~Contains(text, <<"(", "deny ">>) /\ ~Contains(text, <<"(", "allow ">>)
         THEN "missing deny/allow"
    ELSE "ok"

\* a dynamic phase that runs the tool whatever the static phase returned
DynamicPhaseAlways(static, toolAccepts) ==
    [result |-> IF static # "ok" THEN static
                ELSE IF toolAccepts THEN "ok" ELSE "sandbox-exec test failed",
     dynamic |-> TRUE]

\* the dynamic phase, entered only when the static phase passed
DynamicPhase(static, toolAccepts) ==
    IF static # "ok" THEN [result |-> static, dynamic |-> FALSE]
    ELSE [result |-> IF toolAccepts THEN "ok" ELSE "sandbox-exec test failed",
          dynamic |-> TRUE]

\* ValidateProfile: the static phase short-circuits; the dynamic phase runs
\* sandbox-exec on /usr/bin/true and fails when the tool rejects the profile
ValidateProfile(text, toolAccepts) == DynamicPhase(StaticValidate(text), toolAccepts)

\* Path entries a configuration may list (filesystem.denyRead, allowWrite, ...)
RawPathPool ==
    { <<"/", "a">>,                       \* /a
      <<"/", "a", "(">>,                  \* /a(   a literal path with a parenthesis
      <<"~", "/", "*">>,                  \* ~/*
      <<"/", "a", "/", "*", "*">>,        \* /a/**
      <<"{", "a", ",", "*", "}">>,        \* {a,*}
      <<"[", "a">> }                      \* [a    an unclosed character class
ProxyPorts == {<<0, 0>>, <<3128, 1080>>}

\* the four path lists of a configuration: a sequence of entries cut in four
PathConfigs ==
    { [denyRead |-> SubSeq(all, 1, i), allowWrite |-> SubSeq(all, i + 1, j),
       denyWrite |-> SubSeq(all, j + 1, k), allowUnlink |-> SubSeq(all, k + 1, Len(all))] :
        <<all, i, j, k>> \in
          { t \in SeqsUpTo(RawPathPool, MaxPathEntries) \X (0..MaxPathEntries)
                  \X (0..MaxPathEntries) \X (0..MaxPathEntries) :
              t[2] <= t[3] /\ t[3] <= t[4] /\ t[4] <= Len(t[1]) } }

\* the arguments Execute and DryRun hand to the generator
GenArgs(fs, ports, enableProxy, flags) ==
    [httpProxyPort |-> ports[1], socksProxyPort |-> ports[2], enableProxy |-> enableProxy,
     denyReadPaths |-> NormalisePaths(fs.denyRead),
     allowWritePaths |-> NormalisePaths(fs.allowWrite),
     denyWritePaths |-> NormalisePaths(fs.denyWrite),
     allowUnlinkPaths |-> NormalisePaths(fs.allowUnlink),
     allowFork |-> flags[1], allowSysctlRead |-> flags[2],
     allowMachLookup |-> flags[3], allowPosixShm |-> flags[4]]

ProfileInit ==
    /\ \E fs \in PathConfigs, enableProxy \in BOOLEAN,
          flags \in BOOLEAN \X BOOLEAN \X BOOLEAN \X BOOLEAN :
         \E ports \in (IF enableProxy THEN ProxyPorts ELSE {<<0, 0>>}) :
            genArgs = GenArgs(fs, ports, enableProxy, flags)
    /\ genState = "args"
    /\ profile = <<>>
    /\ validation = "none"
    /\ dynamicRan = FALSE

\* one call of GenerateSeatbeltProfile
Generate ==
    /\ genState = "args"
    /\ \E g \in {GenerateSeatbeltProfile(genArgs)} :
          /\ genState' = IF g.err THEN "failed" ELSE "generated"
          /\ profile' = g.text
    /\ UNCHANGED <<genArgs, validation, dynamicRan>>

\* one call of ValidateProfile on the generated text
Validate ==
    /\ genState = "generated"
    /\ validation = "none"
    /\ \E toolAccepts \in BOOLEAN :
         \E v \in {ValidateProfile(profile, toolAccepts)} :
            /\ validation' = v.result
            /\ dynamicRan' = v.dynamic
    /\ UNCHANGED <<genArgs, genState, profile>>

(***************************************************************************)
(* HTTP proxy (internal/network/http_proxy.go).  One request is handled    *)
(* per behaviour: handlers share nothing but the read-only filter.         *)
(***************************************************************************)
HostChars == {"a", "A", "."}
HostNames == SeqsUpTo(HostChars, MaxHostLen)
PortSuffixes == {<<>>, <<":", "4">>}

\* r.Host of a request the net/http server hands to the handler: the host of
\* the request URL (always so for CONNECT and absolute-form requests), or
\* the Host header; a host name with an optional ":port"
Requests ==
    { [method |-> m, host |-> n \o pt] :
        m \in {"CONNECT", "GET"}, n \in HostNames, pt \in PortSuffixes }

\* strings.Split(host, ":")[0]
HostDomain(host) == Split(host, ":")[1]

NoResponse == [status |-> 0, marker |-> FALSE, dialled |-> <<>>, established |-> FALSE]

\* what the network does to one request: whether the client connection can
\* be hijacked, whether the target is reachable, the status the target answers
NetOutcomes == [hijackOk : BOOLEAN, dialOk : BOOLEAN, upstream : {200, 403}]

\* handleConnect: hijack, net.DialTimeout("tcp", r.Host), then 200 or 502
handleConnect(r, net) ==
    IF ~net.hijackOk
    THEN [status |-> 503, marker |-> FALSE, dialled |-> <<>>, established |-> FALSE]
    ELSE IF ~net.dialOk
    THEN [status |-> 502, marker |-> FALSE, dialled |-> <<r.host>>, established |-> FALSE]
    ELSE [status |-> 200, marker |-> FALSE, dialled |-> <<r.host>>, established |-> TRUE]

\* handleHTTP: client.Do on the target URL, whose host is r.Host; the
\* target's status is relayed, a failed request answered 502
handleHTTP(r, net) ==
    IF ~net.dialOk
    THEN [status |-> 502, marker |-> FALSE, dialled |-> <<r.host>>, established |-> FALSE]
    ELSE [status |-> net.upstream, marker |-> FALSE, dialled |-> <<r.host>>, established |-> FALSE]

\* handleRequest without its filter check
handleRequestUnfiltered(f, r, net) ==
    IF r.method = "CONNECT" THEN handleConnect(r, net) ELSE handleHTTP(r, net)

\* handleRequest: the status answered, the X-Proxy-Error marker, the targets
\* dialled and whether the CONNECT tunnel was established
handleRequest(f, r, net) ==
    IF ~IsAllowed(f, HostDomain(r.host))
    THEN [status |-> 403, marker |-> TRUE, dialled |-> <<>>, established |-> FALSE]
    ELSE IF r.method = "CONNECT" THEN handleConnect(r, net) ELSE handleHTTP(r, net)

ProxyIdle == request = <<>> /\ response = NoResponse

\* the server calls the handler on one request
HandleRequest ==
    /\ request = <<>>
    /\ \E r \in Requests, net \in NetOutcomes :
         /\ request' = r
         /\ response' = handleRequest(Filter, r, net)
    /\ UNCHANGED filterVars

(***************************************************************************)
(* The sandbox manager (manager.go), the violation monitor and the         *)
(* violation logger (violation_logger.go).  One invocation: the caller     *)
(* builds a Manager, calls Execute and, when Execute returns, Cleanup.     *)
(* Threads: the main path, the signal watcher of setupCleanup, the two     *)
(* proxy serve goroutines, the log-stream reader and the violation         *)
(* consumer.                                                               *)
(***************************************************************************)
VARIABLES config, host, mgr, listeners, serving, monitor, violations, files,
          pc, locals, signals, child, process, hist

lifeVars == <<config, host, mgr, listeners, serving, monitor, violations, files,
              pc, locals, signals, child, process, hist>>

MaxEvents == 1
MaxSignals == 1

\* make(chan Violation, 100)
ViolationsCap == 100

\* ---- configurations and hosts of the explored invocations ----
LifeNetworks ==
    { [defaultPolicy |-> "deny", allowedDomains |-> <<>>, deniedDomains |-> <<>>,
       httpProxyPort |-> 0, socksProxyPort |-> 0],
      [defaultPolicy |-> "deny", allowedDomains |-> << <<"a">> >>, deniedDomains |-> <<>>,
       httpProxyPort |-> 3128, socksProxyPort |-> 1080],
      [defaultPolicy |-> "allow", allowedDomains |-> <<>>, deniedDomains |-> << <<"a">> >>,
       httpProxyPort |-> 0, socksProxyPort |-> 0] }

LifePaths ==
    { [denyRead |-> << <<"/", "a">> >>, allowWrite |-> << <<"/", "a", "/", "*", "*">> >>,
       denyWrite |-> <<>>, allowUnlink |-> <<>>],
      [denyRead |-> <<>>, allowWrite |-> << <<"[", "a">> >>,
       denyWrite |-> <<>>, allowUnlink |-> <<>>],
      [denyRead |-> <<>>, allowWrite |-> << <<"/", "a", "(">> >>,
       denyWrite |-> <<>>, allowUnlink |-> <<>>] }

\* config.Violations and config.Verbose: the ignore map as its entries
\* (process name or "*", target patterns), and the debug switch
Quiet == [verbose |-> FALSE, violations |-> {}]
Verbose ==
    [verbose |-> TRUE,
     violations |-> { [key |-> "sh", patterns |-> << <<"/", "u">> >>],
                      [key |-> "*", patterns |-> << <<"/", "e">> >>] }]

LifeFlags == <<TRUE, TRUE, TRUE, FALSE>>

\* what the host gives the invocation: the pid, the command line,
\* os.Environ() as NAME=value entries, the package-manager directories
\* found, and whether the configured paths can be resolved
PlainHost ==
    [pid |-> 7, command |-> <<"sh">>, environ |-> << <<"PATH", <<"/bin">>>> >>,
     detected |-> <<>>, resolvable |-> TRUE]
ProxiedHost ==
    [PlainHost EXCEPT
       !.environ = @ \o << <<"HTTP_PROXY", <<"http://corp:8080">>>> >>,
       !.detected = << <<"/", "h", "/", "c">> >>]

\* the explored pairs of audit settings and host
Setups ==
    { <<Quiet, PlainHost>>, <<Verbose, ProxiedHost>>,
      <<Quiet, [PlainHost EXCEPT !.resolvable = FALSE]>>,
      <<Quiet, [PlainHost EXCEPT !.command = <<>>]>> }

LifeConfig(n, f, audit) ==
    [network |-> n, filesystem |-> f, process |-> LifeFlags,
     verbose |-> audit.verbose, violations |-> audit.violations]

\* the ports the kernel hands out for a requested port 0
EphemeralPorts == <<49152, 49153>>

\* the sandboxd log lines the stream can deliver: a line that is not JSON,
\* and decoded events with their process and message
Malformed == [process |-> "", message |-> <<"{">>]
LogLines ==
    { Malformed,
      [process |-> "sh", message |-> <<"deny(1)", " ", "file-write", "-create", " ", "/", "a">>],
      [process |-> "sh", message |-> <<"deny(1)", " ", "file-read", "-data", " ", "/", "u", "/", "x">>] }

Threads == {"main", "sig", "reader", "consumer"}
CleanupThreads == {"main", "sig"}

LifeInit ==
    /\ \E n \in LifeNetworks, f \in LifePaths, setup \in Setups :
          config = LifeConfig(n, f, setup[1]) /\ host = setup[2]
    /\ mgr = [httpProxy |-> "nil", socksProxy |-> "nil", violationLogger |-> "nil",
              violationMon |-> "nil", profilePath |-> "", stopCh |-> "open", wg |-> 0]
    /\ listeners = [http |-> "none", socks |-> "none"]
    /\ serving = [http |-> "none", socks |-> "none"]
    /\ monitor = [stopCh |-> "none", proc |-> "none", chanClosed |-> FALSE, emitted |-> 0]
    /\ violations = <<>>
    /\ files = [profile |-> FALSE, logOpen |-> FALSE, durableLog |-> <<>>, debugStream |-> <<>>]
    /\ pc = [t \in Threads |-> IF t = "main" THEN "new" ELSE "none"]
    /\ locals = [line |-> Malformed]
    /\ signals = [sigCh |-> 0, delivered |-> 0]
    /\ child = [state |-> "none", code |-> 0, env |-> <<>>, validated |-> "none"]
    /\ process = [exited |-> FALSE, status |-> 0, panicked |-> FALSE]
    /\ hist = [execResult |-> "none", stopped |-> FALSE, stopSnapshot |-> <<>>,
               loggerClosed |-> FALSE, teardown |-> {},
               dryRun |-> "none", dryRunPaths |-> <<>>]
    /\ genArgs = <<>> /\ genState = "idle" /\ profile = <<>>
    /\ validation = "none" /\ dynamicRan = FALSE

LifeIdle ==
    /\ config = <<>> /\ host = <<>> /\ mgr = <<>> /\ listeners = <<>> /\ serving = <<>>
    /\ monitor = <<>> /\ violations = <<>> /\ files = <<>> /\ pc = <<>> /\ locals = <<>>
    /\ signals = <<>> /\ child = <<>> /\ process = <<>> /\ hist = <<>>

\* os.Exit(status): the process is gone, with every goroutine
Exit(status) == [exited |-> TRUE, status |-> status, panicked |-> FALSE]
\* an unrecovered panic: the runtime prints the trace and exits with status 2
Panic == [exited |-> TRUE, status |-> 2, panicked |-> TRUE]

Goto(t, label) == [pc EXCEPT ![t] = label]

\* ---- NewManager (manager.go 35-115) ----
needsNetworkProxy(cfg) ==
    Len(cfg.network.allowedDomains) > 0 \/ cfg.network.defaultPolicy = "allow"

\* the port a listener reports: the requested one, or the kernel's choice
BoundPort(requested, ephemeral) == IF requested = 0 THEN ephemeral ELSE requested

BindOutcomes == {"ok", "http fails", "socks fails"}

\* NewManager with proxies: both listeners bound, the ports written back
\* into the caller's config, the two serve goroutines started
NewManagerWithProxies(loggerOk, bind) ==
    IF bind = "http fails"
    THEN /\ pc' = Goto("main", "fatal")
         /\ UNCHANGED <<config, mgr, listeners, serving>>
    ELSE IF bind = "socks fails"
    THEN /\ pc' = Goto("main", "fatal")
         /\ listeners' = [listeners EXCEPT !.http = "open"]
         /\ config' = [config EXCEPT !.network.httpProxyPort = BoundPort(@, EphemeralPorts[1])]
         /\ UNCHANGED <<mgr, serving>>
    ELSE /\ listeners' = [http |-> "open", socks |-> "open"]
         /\ config' = [config EXCEPT
                         !.network.httpProxyPort = BoundPort(@, EphemeralPorts[1]),
                         !.network.socksProxyPort = BoundPort(@, EphemeralPorts[2])]
         /\ mgr' = [mgr EXCEPT !.httpProxy = "set", !.socksProxy = "set", !.wg = 2,
                               !.violationLogger = IF loggerOk THEN "set" ELSE "nil"]
         /\ serving' = [http |-> "running", socks |-> "running"]
         /\ pc' = [pc EXCEPT !["main"] = "execute", !["sig"] = "select"]

NewManager ==
    /\ ~process.exited
    /\ pc["main"] = "new"
    /\ \E loggerOk \in BOOLEAN, bind \in BindOutcomes :
         IF needsNetworkProxy(config)
         THEN NewManagerWithProxies(loggerOk, bind)
         ELSE /\ bind = "ok"
              /\ mgr' = [mgr EXCEPT !.violationLogger = IF loggerOk THEN "set" ELSE "nil"]
              /\ pc' = [pc EXCEPT !["main"] = "execute", !["sig"] = "select"]
              /\ UNCHANGED <<config, listeners, serving>>
    /\ UNCHANGED <<host, monitor, violations, files, locals, signals, child, process,
                   hist, profileVars>>

\* the caller when NewManager returned an error: report it and exit 1
MainFatal ==
    /\ ~process.exited
    /\ pc["main"] = "fatal"
    /\ process' = Exit(1)
    /\ UNCHANGED <<config, host, mgr, listeners, serving, monitor, violations, files,
                   pc, locals, signals, child, hist, profileVars>>

\* ---- Execute (manager.go 253-420) ----
\* Execute returns err: the caller goes on to Cleanup
ReturnFromExecute(result) ==
    /\ pc' = Goto("main", "c_close")
    /\ hist' = [hist EXCEPT !.execResult = result]

\* the files GetMandatoryDenyPaths finds under the literal allow-write paths
MandatoryDenySets(allowWritePaths) ==
    {<<>>} \cup { <<allowWritePaths[i] \o <<"/", ".", "g">>>> :
                    i \in { j \in 1..Len(allowWritePaths) : ~ContainsGlob(allowWritePaths[j]) } }

\* detected package-manager paths appended to AllowWrite and AllowUnlink
WithDetected(fs, detected) ==
    [fs EXCEPT !.allowWrite = @ \o detected, !.allowUnlink = @ \o detected]

\* NormalisePaths resolves the entries without glob characters only
HasLiteral(fs) ==
    \E list \in {fs.denyRead, fs.allowWrite, fs.denyWrite, fs.allowUnlink} :
       \E i \in 1..Len(list) : ~ContainsGlob(list[i])

\* the generator's arguments as Execute builds them
ExecuteArgs(cfg, proxyEnabled, mandatoryDeny) ==
    [GenArgs(cfg.filesystem, <<cfg.network.httpProxyPort, cfg.network.socksProxyPort>>,
             proxyEnabled, cfg.process)
       EXCEPT !.denyWritePaths = @ \o mandatoryDeny]

ProxyEnabled == mgr.httpProxy # "nil" /\ mgr.socksProxy # "nil"

\* ---- DryRun (manager.go 134-250) ----
\* the path lists DryRun resolves and prints the profile for
ResolvedLists(fs) ==
    [denyRead |-> NormalisePaths(fs.denyRead), allowWrite |-> NormalisePaths(fs.allowWrite),
     allowUnlink |-> NormalisePaths(fs.allowUnlink)]

\* DryRun once the detected paths were appended: "error" from NormalisePaths
\* or the generator, else the profile is printed
DryRunResult(cfg) ==
    IF ~host.resolvable /\ HasLiteral(cfg.filesystem) THEN "error"
    ELSE IF GenerateSeatbeltProfile(ExecuteArgs(cfg, ProxyEnabled, <<>>)).err THEN "error"
    ELSE "ok"

\* DryRun called on the manager before Execute
DryRun ==
    /\ ~process.exited
    /\ pc["main"] = "execute"
    /\ hist.dryRun = "none"
    /\ IF host.command = <<>>
       THEN /\ hist' = [hist EXCEPT !.dryRun = "error"]
            /\ UNCHANGED config
       ELSE /\ config' = [config EXCEPT !.filesystem = WithDetected(@, host.detected)]
            /\ hist' = [hist EXCEPT !.dryRun = DryRunResult(config'),
                                    !.dryRunPaths = ResolvedLists(config'.filesystem)]
    /\ UNCHANGED <<host, mgr, listeners, serving, monitor, violations, files, pc, locals,
                   signals, child, process, profileVars>>

\* from the entry of Execute to the generated profile text
ExecGenerate(g, args) ==
    /\ genArgs' = args
    /\ profile' = g.text
    /\ genState' = IF g.err THEN "failed" ELSE "generated"
    /\ IF g.err THEN ReturnFromExecute("error")
       ELSE pc' = Goto("main", "write") /\ UNCHANGED hist

ExecPrepare ==
    /\ ~process.exited
    /\ pc["main"] = "execute"
    /\ IF host.command = <<>>
       THEN ReturnFromExecute("error") /\ UNCHANGED <<config, profileVars>>
       ELSE /\ config' = [config EXCEPT !.filesystem = WithDetected(@, host.detected)]
            /\ IF ~host.resolvable /\ HasLiteral(config'.filesystem)
               THEN ReturnFromExecute("error") /\ UNCHANGED profileVars
               ELSE /\ \E md \in MandatoryDenySets(NormalisePaths(config'.filesystem.allowWrite)) :
                        \E args \in {ExecuteArgs(config', ProxyEnabled, md)} :
                           ExecGenerate(GenerateSeatbeltProfile(args), args)
                    /\ UNCHANGED <<validation, dynamicRan>>
    /\ UNCHANGED <<host, mgr, listeners, serving, monitor, violations, files, locals,
                   signals, child, process>>

\* os.WriteFile(m.profilePath, profile)
ExecWriteProfile ==
    /\ ~process.exited
    /\ pc["main"] = "write"
    /\ mgr' = [mgr EXCEPT !.profilePath = "srt-profile.sb"]
    /\ \E written \in BOOLEAN :
         IF written
         THEN /\ files' = [files EXCEPT !.profile = TRUE]
              /\ pc' = Goto("main", "validate")
              /\ UNCHANGED hist
         ELSE ReturnFromExecute("error") /\ UNCHANGED files
    /\ UNCHANGED <<config, host, listeners, serving, monitor, violations, locals,
                   signals, child, process, profileVars>>

\* Execute going on whatever ValidateProfile returned
AfterValidateIgnoringError(result) == "monitor"
\* where Execute goes after ValidateProfile returned result
AfterValidate(result) == IF result = "ok" THEN "monitor" ELSE "return"

ExecValidate ==
    /\ ~process.exited
    /\ pc["main"] = "validate"
    /\ \E toolAccepts \in BOOLEAN :
         \E v \in {ValidateProfile(profile, toolAccepts)} :
            /\ validation' = v.result
            /\ dynamicRan' = v.dynamic
            /\ IF AfterValidate(v.result) = "return"
               THEN ReturnFromExecute("error")
               ELSE pc' = Goto("main", "monitor") /\ UNCHANGED hist
    /\ UNCHANGED <<config, host, mgr, listeners, serving, monitor, violations, files,
                   locals, signals, child, process, genArgs, genState, profile>>

\* NewViolationMonitor + Start + the consumer goroutine; a monitor that
\* cannot start is logged and Execute goes on without it
ExecStartMonitor ==
    /\ ~process.exited
    /\ pc["main"] = "monitor"
    /\ \E logStreamStarts \in BOOLEAN :
         IF logStreamStarts
         THEN /\ mgr' = [mgr EXCEPT !.violationMon = "set"]
              /\ monitor' = [monitor EXCEPT !.stopCh = "open", !.proc = "running"]
              /\ pc' = [pc EXCEPT !["main"] = "start", !["reader"] = "scan",
                                  !["consumer"] = "recv"]
         ELSE /\ pc' = Goto("main", "start")
              /\ UNCHANGED <<mgr, monitor>>
    /\ UNCHANGED <<config, host, listeners, serving, violations, files, locals,
                   signals, child, process, hist, profileVars>>

\* base64("srt-<pid>")
generateCommandID(pid) == <<"base64", "srt-", ToString(pid)>>

\* the three proxy variables
ProxyEnv(cfg) ==
    << <<"HTTP_PROXY", <<"http://localhost:", ToString(cfg.network.httpProxyPort)>>>>,
       <<"HTTPS_PROXY", <<"http://localhost:", ToString(cfg.network.httpProxyPort)>>>>,
       <<"ALL_PROXY", <<"socks5://localhost:", ToString(cfg.network.socksProxyPort)>>>> >>

\* the environment with the proxy variables added whether or not proxies run
ChildEnvAlwaysProxy(environ, commandID, proxyEnabled, cfg) ==
    environ \o << <<"SRT_COMMAND_ID", commandID>> >> \o ProxyEnv(cfg)
\* cmd.Env: os.Environ(), SRT_COMMAND_ID, and the proxy variables if enabled
ChildEnv(environ, commandID, proxyEnabled, cfg) ==
    environ \o << <<"SRT_COMMAND_ID", commandID>> >>
            \o (IF proxyEnabled THEN ProxyEnv(cfg) ELSE <<>>)

\* cmd.Run starts sandbox-exec -f profilePath command...
ExecStartChild ==
    /\ ~process.exited
    /\ pc["main"] = "start"
    /\ \E started \in BOOLEAN :
         IF started
         THEN /\ child' = [state |-> "running", code |-> 0,
                           env |-> ChildEnv(host.environ, generateCommandID(host.pid),
                                            ProxyEnabled, config),
                           validated |-> validation]
              /\ pc' = Goto("main", "wait")
              /\ UNCHANGED hist
         ELSE ReturnFromExecute("error") /\ UNCHANGED child
    /\ UNCHANGED <<config, host, mgr, listeners, serving, monitor, violations, files,
                   locals, signals, process, profileVars>>

\* the child ends: an exit code, or -1 when a signal killed it
ChildCodes == {0, 1, -1}
ChildExit ==
    /\ ~process.exited
    /\ child.state = "running"
    /\ \E code \in ChildCodes : child' = [child EXCEPT !.state = "exited", !.code = code]
    /\ UNCHANGED <<config, host, mgr, listeners, serving, monitor, violations, files,
                   pc, locals, signals, process, hist, profileVars>>

\* the status the kernel reports for os.Exit(code)
ExitStatus(code) == code % 256

\* cmd.Run returned: os.Exit(exit code) on an ExitError, else return nil
ExecWait ==
    /\ ~process.exited
    /\ pc["main"] = "wait"
    /\ child.state = "exited"
    /\ IF child.code # 0
       THEN process' = Exit(ExitStatus(child.code)) /\ UNCHANGED <<pc, hist>>
       ELSE ReturnFromExecute("ok") /\ UNCHANGED process
    /\ UNCHANGED <<config, host, mgr, listeners, serving, monitor, violations, files,
                   locals, signals, child, profileVars>>

\* ---- Cleanup (manager.go 423-451), run by the caller and by the watcher ----
\* a field the main path wrote after the watcher was started is read by the
\* watcher without synchronisation: it sees the value or the initial one
Observed(t, value, initial) == IF t = "main" THEN {value} ELSE {value, initial}

\* close(m.stopCh)
CleanupClose(t) ==
    /\ ~process.exited
    /\ pc[t] = "c_close"
    /\ IF mgr.stopCh = "closed"
       THEN process' = Panic /\ UNCHANGED <<mgr, pc>>
       ELSE /\ mgr' = [mgr EXCEPT !.stopCh = "closed"]
            /\ pc' = Goto(t, "c_mon")
            /\ UNCHANGED process
    /\ UNCHANGED <<config, host, listeners, serving, monitor, violations, files,
                   locals, signals, child, hist, profileVars>>

\* ViolationMonitor.Stop: close(m.stopCh), kill the log stream
Stop ==
    IF monitor.stopCh = "closed"
    THEN process' = Panic /\ UNCHANGED <<monitor, hist>>
    ELSE /\ monitor' = [monitor EXCEPT !.stopCh = "closed", !.proc = "killed"]
         /\ hist' = [hist EXCEPT !.stopped = TRUE, !.stopSnapshot = violations]
         /\ UNCHANGED process

CleanupMonitor(t) ==
    /\ ~process.exited
    /\ pc[t] = "c_mon"
    /\ \E mon \in Observed(t, mgr.violationMon, "nil") :
         IF mon # "nil" THEN Stop ELSE UNCHANGED <<monitor, hist, process>>
    /\ pc' = Goto(t, "c_logger")
    /\ UNCHANGED <<config, host, mgr, listeners, serving, violations, files,
                   locals, signals, child, profileVars>>

\* ViolationLogger.Close
CleanupLogger(t) ==
    /\ ~process.exited
    /\ pc[t] = "c_logger"
    /\ IF mgr.violationLogger # "nil"
       THEN /\ files' = [files EXCEPT !.logOpen = FALSE]
            /\ hist' = [hist EXCEPT !.loggerClosed = TRUE]
       ELSE UNCHANGED <<files, hist>>
    /\ pc' = Goto(t, "c_proxies")
    /\ UNCHANGED <<config, host, mgr, listeners, serving, monitor, violations,
                   locals, signals, child, process, profileVars>>

\* httpProxy.Stop, socksProxy.Stop: the listeners are closed
CleanupProxies(t) ==
    /\ ~process.exited
    /\ pc[t] = "c_proxies"
    /\ listeners' = [http |-> IF mgr.httpProxy # "nil" THEN "closed" ELSE listeners.http,
                     socks |-> IF mgr.socksProxy # "nil" THEN "closed" ELSE listeners.socks]
    /\ pc' = Goto(t, "c_wait")
    /\ UNCHANGED <<config, host, mgr, serving, monitor, violations, files,
                   locals, signals, child, process, hist, profileVars>>

\* m.wg.Wait
CleanupWait(t) ==
    /\ ~process.exited
    /\ pc[t] = "c_wait"
    /\ mgr.wg = 0
    /\ pc' = Goto(t, "c_remove")
    /\ UNCHANGED <<config, host, mgr, listeners, serving, monitor, violations, files,
                   locals, signals, child, process, hist, profileVars>>

\* os.Remove(m.profilePath), and Cleanup returns
CleanupRemove(t) ==
    /\ ~process.exited
    /\ pc[t] = "c_remove"
    /\ \E path \in Observed(t, mgr.profilePath, "") :
         files' = [files EXCEPT !.profile = IF path # "" THEN FALSE ELSE @]
    /\ pc' = Goto(t, "c_done")
    /\ hist' = [hist EXCEPT !.teardown = @ \cup {t}]
    /\ UNCHANGED <<config, host, mgr, listeners, serving, monitor, violations,
                   locals, signals, child, process, profileVars>>

\* the caller after Cleanup returned: status 0, or 1 when Execute failed
MainExit ==
    /\ ~process.exited
    /\ pc["main"] = "c_done"
    /\ process' = Exit(IF hist.execResult = "ok" THEN 0 ELSE 1)
    /\ UNCHANGED <<config, host, mgr, listeners, serving, monitor, violations, files,
                   pc, locals, signals, child, hist, profileVars>>

\* ---- setupCleanup (manager.go 453-466) ----
\* a SIGINT or SIGTERM reaches the process: signal.Notify puts it on the
\* one-slot channel, or drops it when the slot is taken
Signal ==
    /\ ~process.exited
    /\ pc["sig"] # "none"
    /\ signals.delivered < MaxSignals
    /\ signals' = [sigCh |-> 1, delivered |-> signals.delivered + 1]
    /\ UNCHANGED <<config, host, mgr, listeners, serving, monitor, violations, files,
                   pc, locals, child, process, hist, profileVars>>

\* the select of the watcher: either ready case may be taken
SigSelect ==
    /\ ~process.exited
    /\ pc["sig"] = "select"
    /\ \/ /\ signals.sigCh > 0
          /\ signals' = [signals EXCEPT !.sigCh = 0]
          /\ pc' = Goto("sig", "c_close")
       \/ /\ mgr.stopCh = "closed"
          /\ pc' = Goto("sig", "returned")
          /\ UNCHANGED signals
    /\ UNCHANGED <<config, host, mgr, listeners, serving, monitor, violations, files,
                   locals, child, process, hist, profileVars>>

\* os.Exit(130) after the watcher's Cleanup
SigExit ==
    /\ ~process.exited
    /\ pc["sig"] = "c_done"
    /\ process' = Exit(130)
    /\ UNCHANGED <<config, host, mgr, listeners, serving, monitor, violations, files,
                   pc, locals, signals, child, hist, profileVars>>

\* ---- the proxy goroutines: Serve returns once the listener is closed ----
ProxyServeReturn(p) ==
    /\ ~process.exited
    /\ serving[p] = "running"
    /\ listeners[p] = "closed"
    /\ serving' = [serving EXCEPT ![p] = "returned"]
    /\ mgr' = [mgr EXCEPT !.wg = @ - 1]
    /\ UNCHANGED <<config, host, listeners, monitor, violations, files, pc, locals,
                   signals, child, process, hist, profileVars>>

\* ---- ViolationMonitor.Start (violation_logger.go 133-154) ----
\* strings.Fields on a tokenised message
NonEmpty(f) == f # <<>>
Fields(msg) == SelectSeq(Split(msg, " "), NonEmpty)

\* a parse that takes the first field of the message for the target
parseViolationFirstField(line, id) ==
    [id |-> id, process |-> line.process,
     operation |-> IF Contains(line.message, <<"file-read">>) THEN "file-read"
                   ELSE IF Contains(line.message, <<"file-write">>) THEN "file-write"
                   ELSE IF Contains(line.message, <<"network">>) THEN "network"
                   ELSE "",
     target |-> IF Fields(line.message) # <<>> THEN Fields(line.message)[1] ELSE <<>>]

\* parseViolation: the operation by its marker, the target the last field
parseViolation(line, id) ==
    [id |-> id, process |-> line.process,
     operation |-> IF Contains(line.message, <<"file-read">>) THEN "file-read"
                   ELSE IF Contains(line.message, <<"file-write">>) THEN "file-write"
                   ELSE IF Contains(line.message, <<"network">>) THEN "network"
                   ELSE "",
     target |-> IF Fields(line.message) # <<>>
                THEN Fields(line.message)[Len(Fields(line.message))] ELSE <<>>]

\* scanner.Scan delivers the next line; the select on stopCh returns when
\* it is closed (the deferred close(m.violations) runs); json.Unmarshal
\* skips a line that does not decode
ReaderScan ==
    /\ ~process.exited
    /\ pc["reader"] = "scan"
    /\ monitor.emitted < MaxEvents
    /\ \E line \in LogLines :
         IF monitor.stopCh = "closed"
         THEN /\ monitor' = [monitor EXCEPT !.emitted = @ + 1, !.chanClosed = TRUE]
              /\ pc' = Goto("reader", "done")
              /\ UNCHANGED locals
         ELSE /\ monitor' = [monitor EXCEPT !.emitted = @ + 1]
              /\ pc' = Goto("reader", IF line = Malformed THEN "scan" ELSE "send")
              /\ locals' = [locals EXCEPT !.line = IF line = Malformed THEN @ ELSE line]
    /\ UNCHANGED <<config, host, mgr, listeners, serving, violations, files,
                   signals, child, process, hist, profileVars>>

\* scanner.Scan returns false once the log stream was killed: the deferred
\* close(m.violations) runs
ReaderEOF ==
    /\ ~process.exited
    /\ pc["reader"] = "scan"
    /\ monitor.proc = "killed"
    /\ monitor' = [monitor EXCEPT !.chanClosed = TRUE]
    /\ pc' = Goto("reader", "done")
    /\ UNCHANGED <<config, host, mgr, listeners, serving, violations, files, locals,
                   signals, child, process, hist, profileVars>>

\* m.violations <- v blocks while the channel is full
ReaderSend ==
    /\ ~process.exited
    /\ pc["reader"] = "send"
    /\ Len(violations) < ViolationsCap
    /\ violations' = Append(violations, parseViolation(locals.line, monitor.emitted))
    /\ locals' = [locals EXCEPT !.line = Malformed]
    /\ pc' = Goto("reader", "scan")
    /\ UNCHANGED <<config, host, mgr, listeners, serving, monitor, files,
                   signals, child, process, hist, profileVars>>

\* ---- the violation consumer (manager.go 350-366) ----
\* an ignore check that looks at the entry of the process only
ShouldIgnoreProcessOnly(v, ignoreMap) ==
    \E e \in ignoreMap :
       /\ e.key = v.process
       /\ \E i \in 1..Len(e.patterns) : Contains(v.target, e.patterns[i])

\* ShouldIgnoreViolation: the entry of the process, then the "*" entry
ShouldIgnoreViolation(v, ignoreMap) ==
    \E e \in ignoreMap :
       /\ e.key = v.process \/ e.key = "*"
       /\ \E i \in 1..Len(e.patterns) : Contains(v.target, e.patterns[i])

\* a loop body that puts the violation in front of what the sinks hold
HandledInFront(v) ==
    IF ShouldIgnoreViolation(v, config.violations) THEN files
    ELSE [files EXCEPT
            !.logOpen = IF mgr.violationLogger # "nil" THEN TRUE ELSE @,
            !.durableLog = IF mgr.violationLogger # "nil" THEN <<v>> \o @ ELSE @,
            !.debugStream = IF config.verbose THEN <<v>> \o @ ELSE @]

\* what the loop body does with v: a violation that is not ignored goes to
\* the log file (lumberjack opens the file on a write when it is not open)
\* and, if verbose, to stderr
Handled(v) ==
    IF ShouldIgnoreViolation(v, config.violations) THEN files
    ELSE [files EXCEPT
            !.logOpen = IF mgr.violationLogger # "nil" THEN TRUE ELSE @,
            !.durableLog = IF mgr.violationLogger # "nil" THEN Append(@, v) ELSE @,
            !.debugStream = IF config.verbose THEN Append(@, v) ELSE @]

\* for v := range Violations(): the next violation and the loop body, or
\* the end of the loop when the channel is closed and drained
ConsumerRecv ==
    /\ ~process.exited
    /\ pc["consumer"] = "recv"
    /\ IF violations # <<>>
       THEN /\ files' = Handled(Head(violations))
            /\ violations' = Tail(violations)
            /\ UNCHANGED pc
       ELSE /\ monitor.chanClosed
            /\ pc' = Goto("consumer", "done")
            /\ UNCHANGED <<files, violations>>
    /\ UNCHANGED <<config, host, mgr, listeners, serving, monitor, locals,
                   signals, child, process, hist, profileVars>>

(***************************************************************************)
(* One violation on its way from the log stream to the sinks: the state of *)
(* Execute once the monitor runs and the reader holds a decoded line.      *)
(***************************************************************************)
MaxMessageLen == 3

\* the pieces an event message is made of, and the processes it may name
MessageTokens == {" ", "file-read", "file-write", "network", "/", "u", "e"}
Messages == UNION { [1..n -> MessageTokens] : n \in 0..MaxMessageLen }
DecodedLines == [process : {"sh", "ls"}, message : Messages]

\* the configuration of the run: no proxies, one of the two audit settings
ViolationConfig(audit) ==
    LifeConfig([defaultPolicy |-> "deny", allowedDomains |-> <<>>, deniedDomains |-> <<>>,
                httpProxyPort |-> 0, socksProxyPort |-> 0],
               [denyRead |-> << <<"/", "a">> >>, allowWrite |-> <<>>,
                denyWrite |-> <<>>, allowUnlink |-> <<>>],
               audit)

ViolationInit ==
    /\ \E audit \in {Quiet, Verbose} : config = ViolationConfig(audit)
    /\ host = PlainHost
    /\ \E logger \in {"set", "nil"} :
         mgr = [httpProxy |-> "nil", socksProxy |-> "nil", violationLogger |-> logger,
                violationMon |-> "set", profilePath |-> "srt-profile.sb",
                stopCh |-> "open", wg |-> 0]
    /\ listeners = [http |-> "none", socks |-> "none"]
    /\ serving = [http |-> "none", socks |-> "none"]
    /\ monitor = [stopCh |-> "open", proc |-> "running", chanClosed |-> FALSE, emitted |-> 1]
    /\ violations = <<>>
    /\ files = [profile |-> TRUE, logOpen |-> FALSE, durableLog |-> <<>>, debugStream |-> <<>>]
    /\ pc = [t \in Threads |-> CASE t = "main" -> "start" [] t = "sig" -> "select"
                                 [] t = "reader" -> "send" [] OTHER -> "recv"]
    /\ locals \in [line : DecodedLines]
    /\ signals = [sigCh |-> 0, delivered |-> 0]
    /\ child = [state |-> "none", code |-> 0, env |-> <<>>, validated |-> "none"]
    /\ process = [exited |-> FALSE, status |-> 0, panicked |-> FALSE]
    /\ hist = [execResult |-> "none", stopped |-> FALSE, stopSnapshot |-> <<>>,
               loggerClosed |-> FALSE, teardown |-> {},
               dryRun |-> "none", dryRunPaths |-> <<>>]
    /\ genArgs = ExecuteArgs(config, FALSE, <<>>)
    /\ genState = "generated"
    /\ profile = GenerateSeatbeltProfile(genArgs).text
    /\ validation = "ok" /\ dynamicRan = TRUE

(***************************************************************************)
(* Several violations on their way: the channel holds the violations the   *)
(* reader has sent and the consumer has not yet received, and the reader   *)
(* holds the next decoded line.                                            *)
(***************************************************************************)
MaxBacklog == 2

DecodedLogLines == LogLines \ {Malformed}

\* the channel after the reader has sent the lines of a sequence, the i-th
\* of them the i-th event of the stream
Backlogs ==
    UNION { { [i \in 1..n |-> parseViolation(lines[i], i)] :
                lines \in [1..n -> DecodedLogLines] } : n \in 0..MaxBacklog }

OrderInit ==
    /\ \E audit \in {Quiet, Verbose} : config = ViolationConfig(audit)
    /\ host = PlainHost
    /\ \E logger \in {"set", "nil"} :
         mgr = [httpProxy |-> "nil", socksProxy |-> "nil", violationLogger |-> logger,
                violationMon |-> "set", profilePath |-> "srt-profile.sb",
                stopCh |-> "open", wg |-> 0]
    /\ listeners = [http |-> "none", socks |-> "none"]
    /\ serving = [http |-> "none", socks |-> "none"]
    /\ violations \in Backlogs
    /\ monitor = [stopCh |-> "open", proc |-> "running", chanClosed |-> FALSE,
                  emitted |-> Len(violations) + 1]
    /\ files = [profile |-> TRUE, logOpen |-> FALSE, durableLog |-> <<>>, debugStream |-> <<>>]
    /\ pc = [t \in Threads |-> CASE t = "main" -> "start" [] t = "sig" -> "select"
                                 [] t = "reader" -> "send" [] OTHER -> "recv"]
    /\ locals \in [line : DecodedLogLines]
    /\ signals = [sigCh |-> 0, delivered |-> 0]
    /\ child = [state |-> "none", code |-> 0, env |-> <<>>, validated |-> "none"]
    /\ process = [exited |-> FALSE, status |-> 0, panicked |-> FALSE]
    /\ hist = [execResult |-> "none", stopped |-> FALSE, stopSnapshot |-> <<>>,
               loggerClosed |-> FALSE, teardown |-> {},
               dryRun |-> "none", dryRunPaths |-> <<>>]
    /\ genArgs = ExecuteArgs(config, FALSE, <<>>)
    /\ genState = "generated"
    /\ profile = GenerateSeatbeltProfile(genArgs).text
    /\ validation = "ok" /\ dynamicRan = TRUE

(***************************************************************************)
(* Stop on a started monitor: the child has exited with status 0, Execute  *)
(* has returned, and Cleanup on the caller's path has closed the stop      *)
(* channel and has just invoked ViolationMonitor.Stop, while the reader    *)
(* and the consumer are at work on a channel that is empty or full.        *)
(***************************************************************************)
\* the channels at the moment of Stop: the violations sent before the
\* events the model follows, none or as many as the channel holds
StopChannels ==
    { [i \in 1..n |-> parseViolation(CHOOSE line \in DecodedLogLines : TRUE, i - n)] :
        n \in {0, ViolationsCap} }

StopInit ==
    /\ \E audit \in {Quiet, Verbose} : config = ViolationConfig(audit)
    /\ host = PlainHost
    /\ \E logger \in {"set", "nil"} :
         mgr = [httpProxy |-> "nil", socksProxy |-> "nil", violationLogger |-> logger,
                violationMon |-> "set", profilePath |-> "srt-profile.sb",
                stopCh |-> "closed", wg |-> 0]
    /\ listeners = [http |-> "none", socks |-> "none"]
    /\ serving = [http |-> "none", socks |-> "none"]
    /\ violations \in StopChannels
    /\ monitor = [stopCh |-> "closed", proc |-> "killed", chanClosed |-> FALSE, emitted |-> 0]
    /\ files = [profile |-> TRUE, logOpen |-> FALSE, durableLog |-> <<>>, debugStream |-> <<>>]
    /\ \E reader \in {"scan", "send"} :
         pc = [t \in Threads |-> CASE t = "main" -> "c_logger" [] t = "sig" -> "select"
                                    [] t = "reader" -> reader [] OTHER -> "recv"]
    /\ locals \in [line : IF pc["reader"] = "send" THEN DecodedLogLines ELSE {Malformed}]
    /\ signals = [sigCh |-> 0, delivered |-> 0]
    /\ child = [state |-> "exited", code |-> 0,
                env |-> ChildEnv(host.environ, generateCommandID(host.pid), FALSE, config),
                validated |-> "ok"]
    /\ process = [exited |-> FALSE, status |-> 0, panicked |-> FALSE]
    /\ hist = [execResult |-> "ok", stopped |-> TRUE, stopSnapshot |-> violations,
               loggerClosed |-> FALSE, teardown |-> {},
               dryRun |-> "none", dryRunPaths |-> <<>>]
    /\ genArgs = ExecuteArgs(config, FALSE, <<>>)
    /\ genState = "file"
    /\ profile = GenerateSeatbeltProfile(genArgs).text
    /\ validation = "ok" /\ dynamicRan = TRUE

(***************************************************************************)
(* Configuration override (internal/config/merge.go, loader.go).  A JSON   *)
(* object is modelled as the set of keys it holds and a record giving the  *)
(* value under each of them; a nil slice and an empty array are both <<>>. *)
(***************************************************************************)
VARIABLES baseConfig,     \* the resolved base configuration
          overrideDoc,    \* the override JSON text handed to ParseOverrideConfig
          overrideConfig, \* the Config ParseOverrideConfig returned
          mergedConfig,   \* the Config MergeConfigs returned
          mergeState      \* "doc" | "parsed" | "merged" | "built"

mergeVars == <<baseConfig, overrideDoc, overrideConfig, mergedConfig, mergeState>>

MaxOverrideFields == 2

Sections == {"network", "filesystem", "process"}
FieldsOf(section) ==
    IF section = "network"
    THEN {"defaultPolicy", "allowedDomains", "deniedDomains", "httpProxyPort"}
    ELSE IF section = "filesystem" THEN {"allowWrite"}
    ELSE {"allowFork", "allowPosixShm"}

\* the zero value json.Unmarshal leaves in a field the text does not set
ZeroConfig ==
    [network |-> [defaultPolicy |-> "", allowedDomains |-> <<>>, deniedDomains |-> <<>>,
                  httpProxyPort |-> 0],
     filesystem |-> [allowWrite |-> <<>>],
     process |-> [allowFork |-> FALSE, allowPosixShm |-> FALSE]]

\* the values a configuration text may give to a field
FieldValues(section, field) ==
    IF field = "defaultPolicy" THEN {"", "allow", "deny"}
    ELSE IF field = "allowedDomains" THEN { <<>>, << <<"a">>, <<"*", ".", "a">> >> }
    ELSE IF field = "deniedDomains" THEN { <<>>, << <<"a", ".", "*">> >> }
    ELSE IF field = "httpProxyPort" THEN {0, 8080}
    ELSE IF field = "allowWrite" THEN { <<>>, << <<"/", "a">> >> }
    ELSE BOOLEAN

\* resolved base configurations: deny by default with an allow list, and
\* allow by default with a deny list
BaseConfigs ==
    { [network |-> [defaultPolicy |-> "deny", allowedDomains |-> << <<"A">> >>,
                    deniedDomains |-> <<>>, httpProxyPort |-> 3128],
       filesystem |-> [allowWrite |-> << <<"/", "w">> >>],
       process |-> [allowFork |-> TRUE, allowPosixShm |-> FALSE]],
      [network |-> [defaultPolicy |-> "allow", allowedDomains |-> <<>>,
                    deniedDomains |-> << <<"a">> >>, httpProxyPort |-> 0],
       filesystem |-> [allowWrite |-> <<>>],
       process |-> [allowFork |-> TRUE, allowPosixShm |-> TRUE]] }

Configs ==
    [network : [defaultPolicy : FieldValues("network", "defaultPolicy"),
                allowedDomains : FieldValues("network", "allowedDomains"),
                deniedDomains : FieldValues("network", "deniedDomains"),
                httpProxyPort : {0, 8080}],
     filesystem : [allowWrite : FieldValues("filesystem", "allowWrite")],
     process : [allowFork : BOOLEAN, allowPosixShm : BOOLEAN]]

\* the (section, field) pairs of the model
Leaves == UNION { {s} \X FieldsOf(s) : s \in Sections }

\* a JSON text: the sections it holds, the fields each of them sets, and
\* the values; at most MaxOverrideFields fields are set
JSONDocs ==
    { [sections |-> secs, leaves |-> set, val |-> v] :
        <<secs, set, v>> \in
          { t \in (SUBSET Sections) \X (SUBSET Leaves) \X Configs :
              /\ Cardinality(t[2]) <= MaxOverrideFields
              /\ \A l \in t[2] : l[1] \in t[1]
              /\ \A l \in Leaves \ t[2] : t[3][l[1]][l[2]] = ZeroConfig[l[1]][l[2]] } }

\* json.Unmarshal into a Config: a field the text does not set stays zero
Unmarshal(doc) ==
    [s \in Sections |->
       [f \in FieldsOf(s) |->
          IF <<s, f>> \in doc.leaves THEN doc.val[s][f] ELSE ZeroConfig[s][f]]]

\* json.Marshal of a Config: no field is tagged omitempty, so every section
\* and every field is written, zero values included
Marshal(cfg) == [sections |-> Sections, leaves |-> Leaves, val |-> cfg]

ParseOverrideConfig(doc) == Unmarshal(doc)

DeepCopy(cfg) == Unmarshal(Marshal(cfg))

\* mergeNetworkConfig, mergeFilesystemConfig, mergeProcessConfig: a field
\* whose key is in the override map replaces the base field
mergeSection(base, override, overrideMap, s) ==
    [f \in FieldsOf(s) |->
       IF <<s, f>> \in overrideMap.leaves THEN override[s][f] ELSE base[s][f]]

\* the sections of merged replaced where the override map holds them
MergeWith(merged, override, overrideMap) ==
    [s \in Sections |->
       IF s \in overrideMap.sections THEN mergeSection(merged, override, overrideMap, s)
       ELSE merged[s]]

\* MergeConfigs: the override map is the override Config marshalled again
MergeConfigs(base, override) == MergeWith(DeepCopy(base), override, Marshal(override))

\* the domains asked of the filter built from the merged configuration
QueryDomains == { <<"a">>, <<"A", ".", "a">>, <<"a", ".", "a">>, <<".">> }

MergeInit ==
    /\ baseConfig \in BaseConfigs
    /\ overrideDoc \in JSONDocs
    /\ overrideConfig = ZeroConfig
    /\ mergedConfig = ZeroConfig
    /\ mergeState = "doc"

MergeIdle ==
    /\ baseConfig = <<>> /\ overrideDoc = <<>> /\ overrideConfig = <<>>
    /\ mergedConfig = <<>> /\ mergeState = "idle"

ParseOverride ==
    /\ mergeState = "doc"
    /\ overrideConfig' = ParseOverrideConfig(overrideDoc)
    /\ mergeState' = "parsed"
    /\ UNCHANGED <<baseConfig, overrideDoc, mergedConfig, filterVars>>

Merge ==
    /\ mergeState = "parsed"
    /\ mergedConfig' = MergeConfigs(baseConfig, overrideConfig)
    /\ mergeState' = "merged"
    /\ UNCHANGED <<baseConfig, overrideDoc, overrideConfig, filterVars>>

\* NewManager on the merged configuration: the filter, if a proxy is needed
BuildFilter ==
    /\ mergeState = "merged"
    /\ needsNetworkProxy(mergedConfig)
    /\ \E f \in {NewDomainFilter(mergedConfig.network.defaultPolicy,
                                 mergedConfig.network.allowedDomains,
                                 mergedConfig.network.deniedDomains)} :
          /\ defaultPolicy' = f.defaultPolicy
          /\ allowed' = f.allowed
          /\ denied' = f.denied
    /\ filterArgs' = [defaultPolicy |-> mergedConfig.network.defaultPolicy,
                      allowedDomains |-> mergedConfig.network.allowedDomains,
                      deniedDomains |-> mergedConfig.network.deniedDomains]
    /\ mergeState' = "built"
    /\ UNCHANGED <<baseConfig, overrideDoc, overrideConfig, mergedConfig, domain,
                   isAllowedResult>>

\* a connection attempt checked against the filter of the merged configuration
QueryMergedFilter ==
    /\ mergeState = "built"
    /\ isAllowedResult = "none"
    /\ \E d \in QueryDomains :
         /\ domain' = d
         /\ isAllowedResult' = IF IsAllowed(Filter, d) THEN "true" ELSE "false"
    /\ UNCHANGED <<mergeVars, filterArgs, defaultPolicy, allowed, denied>>

(***************************************************************************)
(* MatchGlob (internal/filesystem/globs.go): a pattern is compiled by      *)
(* GlobToRegex and the regex is run on a path by regexp.MatchString.       *)
(***************************************************************************)
VARIABLES globPattern, globRegex, globPath, globMatched, globProfile, globState

globVars == <<globPattern, globRegex, globPath, globMatched, globProfile, globState>>

MaxGlobLen == 3

\* the characters patterns are made of, and the characters paths are made of
GlobChars == {"*", "?", "/", "a", ".", "{", ",", "}", "[", "]"}
PathChars == {"a", "/", "."}

GlobPatterns == UNION { [1..n -> GlobChars] : n \in 1..MaxGlobLen }
\* patterns with a group inside a group: {a,{a,.}}, {{a,.}} and {{a},a}
NestedPatterns ==
    { <<"{", "a", ",", "{", "a", ",", ".", "}", "}">>,
      <<"{", "{", "a", ",", ".", "}", "}">>,
      <<"{", "{", "a", "}", ",", "a", "}">> }
GlobPaths == UNION { [1..n -> PathChars] : n \in 0..MaxGlobLen }

\* regexp: the first character of the body of the bracket expression at i (a
\* '^' right after the bracket negates and is not part of the body)
ClassBody(re, i) == IF i + 1 <= Len(re) /\ re[i + 1] = "^" THEN i + 2 ELSE i + 1

\* regexp: the ']' that closes the bracket expression at i, or Len+1; a ']'
\* that is the first character of the body is an ordinary member
ClassClose(re, i) == FindClose(re, ClassBody(re, i) + 1)

\* regexp: the characters the bracket expression at i matches; a backslash in
\* the body quotes the character after it
ClassSet(re, i) ==
    IF re[i + 1] = "^"
    THEN PathChars \ { re[k] : k \in ClassBody(re, i)..(ClassClose(re, i) - 1) }
    ELSE { re[k] : k \in ClassBody(re, i)..(ClassClose(re, i) - 1) } \ {"\\"}

\* regexp: the single-character atom at position i of re, as the position after
\* it and the set of characters it matches ('.' matches all but a line feed)
AtomAt(re, i) ==
    CASE re[i] = "\\" -> [next |-> i + 2, chars |-> {re[i + 1]}]
      [] re[i] = "[" -> [next |-> ClassClose(re, i) + 1, chars |-> ClassSet(re, i)]
      [] re[i] = "." -> [next |-> i + 1, chars |-> PathChars \ {"\n"}]
      [] OTHER -> [next |-> i + 1, chars |-> {re[i]}]

\* regexp.Compile succeeds: every bracket expression is closed and the
\* parentheses outside bracket expressions are balanced
RECURSIVE RegexCompiles(_, _, _)
RegexCompiles(re, i, depth) ==
    IF i > Len(re) THEN depth = 0
    ELSE IF re[i] = "\\" THEN RegexCompiles(re, i + 2, depth)
    ELSE IF re[i] = "[" THEN ClassClose(re, i) <= Len(re)
                             /\ RegexCompiles(re, ClassClose(re, i) + 1, depth)
    ELSE IF re[i] = "(" THEN RegexCompiles(re, i + 1, depth + 1)
    ELSE IF re[i] = ")" THEN depth > 0 /\ RegexCompiles(re, i + 1, depth - 1)
    ELSE RegexCompiles(re, i + 1, depth)

\* the positions of s reached from starts by one character of chars
StepEnds(s, starts, chars) ==
    { j \in 1..Len(s) : j - 1 \in starts /\ s[j] \in chars }

\* the positions of s reached from starts by any run of characters of chars
StarEnds(s, starts, chars) ==
    { j \in 0..Len(s) :
        \E i \in starts : i <= j /\ \A k \in (i + 1)..j : s[k] \in chars }

RECURSIVE MatchSeq(_, _, _, _)
RECURSIVE MatchGroup(_, _, _, _, _)

\* an atom matched once, or any number of times when a '*' follows it
MatchAtom(re, s, starts, a) ==
    IF a.next <= Len(re) /\ re[a.next] = "*"
    THEN MatchSeq(re, a.next + 1, s, StarEnds(s, starts, a.chars))
    ELSE MatchSeq(re, a.next, s, StepEnds(s, starts, a.chars))

\* the rest of a sequence once a group has been matched
AfterMatchGroup(re, s, g) == MatchSeq(re, g.next, s, g.ends)

\* a concatenation starting at position i of re, up to '|', ')' or the end:
\* the position where it stopped and the positions of s it can end at
MatchSeq(re, i, s, starts) ==
    IF i > Len(re) \/ re[i] \in {"|", ")"} THEN [next |-> i, ends |-> starts]
    ELSE IF re[i] = "(" THEN AfterMatchGroup(re, s, MatchGroup(re, i + 1, s, starts, {}))
    ELSE IF re[i] = "^" THEN MatchSeq(re, i + 1, s, starts \cap {0})
    ELSE IF re[i] = "$" THEN MatchSeq(re, i + 1, s, starts \cap {Len(s)})
    ELSE MatchAtom(re, s, starts, AtomAt(re, i))

\* one alternative of a group matched; the next one follows a '|'
NextAlternative(re, s, starts, acc, m) ==
    IF m.next <= Len(re) /\ re[m.next] = "|"
    THEN MatchGroup(re, m.next + 1, s, starts, acc \cup m.ends)
    ELSE [next |-> m.next + 1, ends |-> acc \cup m.ends]

\* the alternatives of a group, the first of them starting at position i
MatchGroup(re, i, s, starts, acc) ==
    NextAlternative(re, s, starts, acc, MatchSeq(re, i, s, starts))

\* regexp.MatchString(re, s): a match may start anywhere in s
MatchString(re, s) == MatchSeq(re, 1, s, 0..Len(s)).ends # {}

GlobInit ==
    /\ globPattern \in GlobPatterns \cup NestedPatterns
    /\ globRegex = GlobError
    /\ globPath = <<>>
    /\ globMatched = FALSE
    /\ globProfile = NoBlock
    /\ globState = "pattern"

GlobIdle ==
    /\ globPattern = <<>> /\ globRegex = <<>> /\ globPath = <<>>
    /\ globMatched = FALSE /\ globProfile = <<>> /\ globState = "idle"

\* GlobToRegex called on the pattern
Compile ==
    /\ globState = "pattern"
    /\ globRegex' = GlobToRegex(globPattern)
    /\ globState' = "compiled"
    /\ UNCHANGED <<globPattern, globPath, globMatched, globProfile>>

\* the compiled regex run on a path; regexp.MatchString fails on a regex
\* that does not compile
Match ==
    /\ globState = "compiled"
    /\ ~globRegex.err
    /\ \E p \in GlobPaths :
         /\ globPath' = p
         /\ globMatched' = (RegexCompiles(globRegex.re, 1, 0) /\ MatchString(globRegex.re, p))
    /\ globState' = IF RegexCompiles(globRegex.re, 1, 0) THEN "matched" ELSE "regexError"
    /\ UNCHANGED <<globPattern, globRegex, globProfile>>

\* the path lists of a configuration that holds the pattern, after a literal
\* path, in one list
PatternLists ==
    { [l \in {"denyRead", "allowWrite", "denyWrite", "allowUnlink"} |->
          IF l = k THEN << <<"/", "a">>, globPattern >> ELSE <<>>] :
        k \in {"denyRead", "allowWrite", "denyWrite", "allowUnlink"} }

\* GenerateSeatbeltProfile called for a configuration that holds the pattern
GenerateForPattern ==
    /\ globState = "compiled"
    /\ \E fs \in PatternLists :
         globProfile' = GenerateSeatbeltProfile(GenArgs(fs, <<0, 0>>, FALSE, LifeFlags))
    /\ globState' = "generated"
    /\ UNCHANGED <<globPattern, globRegex, globPath, globMatched>>

(***************************************************************************)
(* ValidateProfile on an arbitrary profile file (seatbelt.go 135-167).     *)
(***************************************************************************)
MaxProfileTokens == 6

\* the tokens of a profile file
ProfileTokens == {"(", ")", "version 1", "deny ", "allow "}
ProfileTexts == UNION { [1..n -> ProfileTokens] : n \in 0..MaxProfileTokens }

ValidateInit ==
    /\ genArgs = <<>>
    /\ genState = "file"
    /\ profile \in ProfileTexts
    /\ validation = "none"
    /\ dynamicRan = FALSE

\* one call of ValidateProfile on the file
ValidateFile ==
    /\ genState = "file"
    /\ \E toolAccepts \in BOOLEAN :
         \E v \in {ValidateProfile(profile, toolAccepts)} :
            /\ validation' = v.result
            /\ dynamicRan' = v.dynamic
    /\ genState' = "validated"
    /\ UNCHANGED <<genArgs, profile>>

(***************************************************************************)
(* Invocations of the program on one host                                  *)
(***************************************************************************)
VARIABLES invocations,   \* the invocations so far: process id and commandID
          fileDoc,       \* the text of the settings file handed to Load
          loadedConfig,  \* the Config Load returned
          loadState      \* "file" | "loaded"
auxVars == <<invocations, fileDoc, loadedConfig, loadState>>

\* the invocations a run of the model follows
MaxInvocations == 4
\* the process ids the host hands out: an id is free again once its process
\* has exited, and the first process of a container has the same id each time
HostPids == {7, 8, 9}

LoadIdle == fileDoc = <<>> /\ loadedConfig = <<>> /\ loadState = "idle"
InvokeInit == invocations = <<>> /\ LoadIdle
AuxIdle == invocations = <<>> /\ LoadIdle

\* one invocation of the program: the process is given an id by the host and
\* NewManager fills in commandID from generateCommandID()
Invoke ==
    /\ Len(invocations) < MaxInvocations
    /\ \E pid \in HostPids :
          invocations' = Append(invocations, [pid |-> pid, commandID |-> generateCommandID(pid)])
    /\ UNCHANGED <<fileDoc, loadedConfig, loadState>>

(***************************************************************************)
(* Load (internal/config/loader.go) and Config.Merge (config.go): the      *)
(* settings file merged into the embedded defaults.                        *)
(***************************************************************************)
ProcessFlags == {"allowFork", "allowSysctlRead", "allowMachLookup", "allowPosixShm"}

\* DefaultConfig(): the embedded defaults - deny by default with no allowed
\* domain, the ports left to the kernel, a write path, every process flag true
DefaultConfig ==
    [network |-> [defaultPolicy |-> "deny", allowedDomains |-> <<>>,
                  httpProxyPort |-> 0],
     filesystem |-> [allowWrite |-> << <<".">> >>],
     process |-> [f \in ProcessFlags |-> TRUE]]

\* the settings files of the model: the keys of the process section the
\* text holds, and the Config json.Unmarshal makes of the text (a key the
\* text does not hold leaves the zero value)
SettingsFiles ==
    { [processKeys |-> keys, val |-> cfg] :
        <<keys, cfg>> \in
          { t \in (SUBSET ProcessFlags) \X
                   [network : [defaultPolicy : {"", "allow", "deny"},
                               allowedDomains : { <<>>, << <<"a">> >> },
                               httpProxyPort : {0, 8080}],
                    filesystem : [allowWrite : { <<>>, << <<"/", "a">> >> }],
                    process : [ProcessFlags -> BOOLEAN]] :
              \A f \in ProcessFlags \ t[1] : ~t[2].process[f] } }

\* Config.Merge: a string, list or port of other replaces the one of c when
\* it is not the zero value; the process flags are taken from other, all
\* four together, when at least one of them is true
ConfigMerge(c, other) ==
    [network |-> [defaultPolicy |-> IF other.network.defaultPolicy # ""
                                    THEN other.network.defaultPolicy
                                    ELSE c.network.defaultPolicy,
                  allowedDomains |-> IF Len(other.network.allowedDomains) > 0
                                     THEN other.network.allowedDomains
                                     ELSE c.network.allowedDomains,
                  httpProxyPort |-> IF other.network.httpProxyPort # 0
                                    THEN other.network.httpProxyPort
                                    ELSE c.network.httpProxyPort],
     filesystem |-> [allowWrite |-> IF Len(other.filesystem.allowWrite) > 0
                                    THEN other.filesystem.allowWrite
                                    ELSE c.filesystem.allowWrite],
     process |-> IF \E f \in ProcessFlags : other.process[f]
                 THEN other.process ELSE c.process]

LoadInit ==
    /\ invocations = <<>>
    /\ fileDoc \in SettingsFiles
    /\ loadedConfig = <<>>
    /\ loadState = "file"

\* Load on an existing, well-formed settings file: the defaults, the file
\* unmarshalled, and Merge of the second into the first
Load ==
    /\ loadState = "file"
    /\ loadedConfig' = ConfigMerge(DefaultConfig, fileDoc.val)
    /\ loadState' = "loaded"
    /\ UNCHANGED <<invocations, fileDoc>>

vars == <<filterVars, profileVars, proxyVars, lifeVars, mergeVars, globVars, auxVars>>

\* the filter, and the generator, before they are used
FilterIdle ==
    /\ filterArgs = <<>> /\ defaultPolicy = "allow" /\ allowed = <<>> /\ denied = <<>>
    /\ domain = <<>> /\ isAllowedResult = "none"
ProfileIdle ==
    /\ genArgs = <<>> /\ genState = "idle" /\ profile = <<>>
    /\ validation = "none" /\ dynamicRan = FALSE

InitFilter == FilterInit /\ ProfileIdle /\ ProxyIdle /\ LifeIdle /\ MergeIdle /\ GlobIdle /\ AuxIdle
NextFilter == CallIsAllowed /\ UNCHANGED <<profileVars, proxyVars, lifeVars, mergeVars, globVars, auxVars>>
SpecFilter == InitFilter /\ [][NextFilter]_vars

InitProfile == ProfileInit /\ FilterIdle /\ ProxyIdle /\ LifeIdle /\ MergeIdle /\ GlobIdle /\ AuxIdle
NextProfile ==
    \/ Generate /\ UNCHANGED <<filterVars, proxyVars, lifeVars, mergeVars, globVars, auxVars>>
    \/ Validate /\ UNCHANGED <<filterVars, proxyVars, lifeVars, mergeVars, globVars, auxVars>>
SpecProfile == InitProfile /\ [][NextProfile]_vars

InitProxy == FilterInit /\ ProfileIdle /\ ProxyIdle /\ LifeIdle /\ MergeIdle /\ GlobIdle /\ AuxIdle
NextProxy == HandleRequest /\ UNCHANGED <<profileVars, lifeVars, mergeVars, globVars, auxVars>>
SpecProxy == InitProxy /\ [][NextProxy]_vars

InitLife == LifeInit /\ FilterIdle /\ ProxyIdle /\ MergeIdle /\ GlobIdle /\ AuxIdle
\* the variables of the filter and proxy specifications stay as they are
idleVars == <<filterVars, proxyVars, mergeVars, globVars, auxVars>>
NextLife ==
    \/ NewManager /\ UNCHANGED idleVars
    \/ MainFatal /\ UNCHANGED idleVars
    \/ ExecPrepare /\ UNCHANGED idleVars
    \/ ExecWriteProfile /\ UNCHANGED idleVars
    \/ ExecValidate /\ UNCHANGED idleVars
    \/ ExecStartMonitor /\ UNCHANGED idleVars
    \/ ExecStartChild /\ UNCHANGED idleVars
    \/ ChildExit /\ UNCHANGED idleVars
    \/ ExecWait /\ UNCHANGED idleVars
    \/ (\E t \in CleanupThreads : CleanupClose(t)) /\ UNCHANGED idleVars
    \/ (\E t \in CleanupThreads : CleanupMonitor(t)) /\ UNCHANGED idleVars
    \/ (\E t \in CleanupThreads : CleanupLogger(t)) /\ UNCHANGED idleVars
    \/ (\E t \in CleanupThreads : CleanupProxies(t)) /\ UNCHANGED idleVars
    \/ (\E t \in CleanupThreads : CleanupWait(t)) /\ UNCHANGED idleVars
    \/ (\E t \in CleanupThreads : CleanupRemove(t)) /\ UNCHANGED idleVars
    \/ MainExit /\ UNCHANGED idleVars
    \/ Signal /\ UNCHANGED idleVars
    \/ SigSelect /\ UNCHANGED idleVars
    \/ SigExit /\ UNCHANGED idleVars
    \/ (\E p \in {"http", "socks"} : ProxyServeReturn(p)) /\ UNCHANGED idleVars
    \/ ReaderScan /\ UNCHANGED idleVars
    \/ ReaderEOF /\ UNCHANGED idleVars
    \/ ReaderSend /\ UNCHANGED idleVars
    \/ ConsumerRecv /\ UNCHANGED idleVars
SpecLife == InitLife /\ [][NextLife]_vars

InitMerge == MergeInit /\ FilterIdle /\ ProfileIdle /\ ProxyIdle /\ LifeIdle /\ GlobIdle /\ AuxIdle
NextMerge ==
    \/ ParseOverride /\ UNCHANGED <<profileVars, proxyVars, lifeVars, globVars, auxVars>>
    \/ Merge /\ UNCHANGED <<profileVars, proxyVars, lifeVars, globVars, auxVars>>
    \/ BuildFilter /\ UNCHANGED <<profileVars, proxyVars, lifeVars, globVars, auxVars>>
    \/ QueryMergedFilter /\ UNCHANGED <<profileVars, proxyVars, lifeVars, globVars, auxVars>>
SpecMerge == InitMerge /\ [][NextMerge]_vars

InitGlob == GlobInit /\ FilterIdle /\ ProfileIdle /\ ProxyIdle /\ LifeIdle /\ MergeIdle /\ AuxIdle
NextGlob ==
    \/ Compile /\ UNCHANGED <<filterVars, profileVars, proxyVars, lifeVars, mergeVars, auxVars>>
    \/ Match /\ UNCHANGED <<filterVars, profileVars, proxyVars, lifeVars, mergeVars, auxVars>>
    \/ GenerateForPattern /\ UNCHANGED <<filterVars, profileVars, proxyVars, lifeVars, mergeVars, auxVars>>
SpecGlob == InitGlob /\ [][NextGlob]_vars

InitValidate == ValidateInit /\ FilterIdle /\ ProxyIdle /\ LifeIdle /\ MergeIdle /\ GlobIdle /\ AuxIdle
NextValidate == ValidateFile /\ UNCHANGED <<filterVars, proxyVars, lifeVars, mergeVars, globVars, auxVars>>
SpecValidate == InitValidate /\ [][NextValidate]_vars

\* the calls that are handed the configuration: NewManager, DryRun and
\* Execute up to the generated profile
InitConfig == LifeInit /\ FilterIdle /\ ProxyIdle /\ MergeIdle /\ GlobIdle /\ AuxIdle
NextConfig ==
    \/ NewManager /\ UNCHANGED idleVars
    \/ DryRun /\ UNCHANGED idleVars
    \/ ExecPrepare /\ UNCHANGED idleVars
SpecConfig == InitConfig /\ [][NextConfig]_vars

InitViolation == ViolationInit /\ FilterIdle /\ ProxyIdle /\ MergeIdle /\ GlobIdle /\ AuxIdle
NextViolation ==
    \/ ReaderSend /\ UNCHANGED idleVars
    \/ ConsumerRecv /\ UNCHANGED idleVars
SpecViolation == InitViolation /\ [][NextViolation]_vars

(***************************************************************************)
InitOrder == OrderInit /\ FilterIdle /\ ProxyIdle /\ MergeIdle /\ GlobIdle /\ AuxIdle
NextOrder ==
    \/ ReaderSend /\ UNCHANGED idleVars
    \/ ConsumerRecv /\ UNCHANGED idleVars
SpecOrder == InitOrder /\ [][NextOrder]_vars

\* the rest of Cleanup on the caller's path and the exit of the process,
\* with the two goroutines of the monitor; a step that stays enabled is taken
\* in the end: the Go scheduler runs every runnable goroutine
InitStop == StopInit /\ FilterIdle /\ ProxyIdle /\ MergeIdle /\ GlobIdle /\ AuxIdle
NextStop ==
    \/ CleanupLogger("main") /\ UNCHANGED idleVars
    \/ CleanupProxies("main") /\ UNCHANGED idleVars
    \/ CleanupWait("main") /\ UNCHANGED idleVars
    \/ CleanupRemove("main") /\ UNCHANGED idleVars
    \/ MainExit /\ UNCHANGED idleVars
    \/ ReaderScan /\ UNCHANGED idleVars
    \/ ReaderEOF /\ UNCHANGED idleVars
    \/ ReaderSend /\ UNCHANGED idleVars
    \/ ConsumerRecv /\ UNCHANGED idleVars
FairStop ==
    /\ WF_vars(CleanupLogger("main") /\ UNCHANGED idleVars)
    /\ WF_vars(CleanupProxies("main") /\ UNCHANGED idleVars)
    /\ WF_vars(CleanupWait("main") /\ UNCHANGED idleVars)
    /\ WF_vars(CleanupRemove("main") /\ UNCHANGED idleVars)
    /\ WF_vars(MainExit /\ UNCHANGED idleVars)
    /\ WF_vars(ReaderScan /\ UNCHANGED idleVars)
    /\ WF_vars(ReaderEOF /\ UNCHANGED idleVars)
    /\ WF_vars(ReaderSend /\ UNCHANGED idleVars)
    /\ WF_vars(ConsumerRecv /\ UNCHANGED idleVars)
SpecStop == InitStop /\ [][NextStop]_vars /\ FairStop

InitLoad ==
    /\ LoadInit /\ FilterIdle /\ ProfileIdle /\ ProxyIdle /\ LifeIdle /\ MergeIdle /\ GlobIdle
NextLoad == Load /\ UNCHANGED <<filterVars, profileVars, proxyVars, lifeVars, mergeVars, globVars>>
SpecLoad == InitLoad /\ [][NextLoad]_vars

InitInvoke ==
    /\ InvokeInit /\ FilterIdle /\ ProfileIdle /\ ProxyIdle /\ LifeIdle /\ MergeIdle /\ GlobIdle
NextInvoke == Invoke /\ UNCHANGED <<filterVars, profileVars, proxyVars, lifeVars, mergeVars, globVars>>
SpecInvoke == InitInvoke /\ [][NextInvoke]_vars

(* Claims about the domain filter                                          *)
(***************************************************************************)
\* some pattern of the denied list matches the normalised domain
DeniedMatch == \E i \in 1..Len(denied) : Matches(denied[i], normaliseDomain(domain))
AllowedMatch == \E i \in 1..Len(allowed) : Matches(allowed[i], normaliseDomain(domain))

\* C1: deny precedence - whenever the normalised domain of an IsAllowed call
\* matches a pattern of the denied list, the call returned false, whatever the
\* allowed list and the default policy are.
C1_DenyPrecedence ==
    (isAllowedResult # "none" /\ DeniedMatch) => isAllowedResult = "false"

\* C1 witness: a call on a domain that matches both a denied and an allowed
\* pattern under default policy allow, answered false.
C1_Witness ==
    /\ isAllowedResult = "false"
    /\ DeniedMatch
    /\ AllowedMatch
    /\ defaultPolicy = "allow"

(***************************************************************************)
(* Claims about the HTTP proxy                                             *)
(***************************************************************************)
\* the filter's verdict on the host of the handled request
RequestAllowed == IsAllowed(Filter, HostDomain(request.host))

Occurrences(text, sub) ==
    Cardinality({ i \in 1..(Len(text) - Len(sub) + 1) : SubSeq(text, i, i + Len(sub) - 1) = sub })

\* the profile invariant: balanced parentheses, exactly one version
\* declaration, at least one allow/deny statement
ProfileInvariant(text) ==
    /\ hasBalancedParentheses(text)
    /\ Occurrences(text, <<"(", "version 1", ")">>) = 1
    /\ Contains(text, <<"(", "deny ">>) \/ Contains(text, <<"(", "allow ">>)

\* C9: every profile text GenerateSeatbeltProfile returns without error
\* satisfies the profile invariant that static validation checks.
C9_GeneratedProfileValid ==
    genState = "generated" => ProfileInvariant(profile)

\* the positions where a rule starts: a "(allow " or "(deny " that opens a line
RuleStarts(text) ==
    { i \in 1..(Len(text) - 1) :
        /\ text[i] = "(" /\ text[i + 1] \in {"allow ", "deny "}
        /\ (i = 1 \/ text[i - 1] = NL) }

\* the end of the line that starts at i (the position of its newline)
LineEnd(text, i) ==
    IF \E e \in i..Len(text) : text[e] = NL
    THEN CHOOSE e \in i..Len(text) : text[e] = NL /\ \A k \in i..(e - 1) : text[k] # NL
    ELSE Len(text) + 1

\* the line that starts at i, without its newline
LineAt(text, i) == SubSeq(text, i, LineEnd(text, i) - 1)

HasFilter(line) == Len(line) > 4

\* position of a rule in the documented order: process grants (1), network
\* (2), file reads (3), file writes (4: blanket deny, allows, denies), unlink (5)
RuleRank(line) ==
    LET action == line[2]
        op == line[3]
    IN CASE op \in {"process-exec*", "process-fork", "sysctl-read", "mach-lookup", "ipc-posix-shm*"} -> 10
         [] op = "network*" -> IF ~HasFilter(line) /\ action = "deny " THEN 20 ELSE 21
         [] op = "file-read*" -> IF ~HasFilter(line) /\ action = "allow " THEN 30 ELSE 31
         [] op = "file-write*" ->
              IF ~HasFilter(line) /\ action = "deny " THEN 40
              ELSE IF HasFilter(line) /\ action = "allow " THEN 41
              ELSE IF HasFilter(line) /\ action = "deny " THEN 42 ELSE 0
         [] op = "file-write-unlink" -> IF ~HasFilter(line) /\ action = "deny " THEN 50 ELSE 51
         [] OTHER -> 0

\* the rule line the generator emits for one path of a list
RuleLine(action, op, path) ==
    LET rule == IF ContainsGlob(path)
                THEN FilterRule(action, op, "regex #", GlobToRegex(path).re)
                ELSE FilterRule(action, op, "subpath ", path)
    IN SubSeq(rule, 1, Len(rule) - 1)

\* rank of the rule starting at each rule start
RankAt(text) == [i \in RuleStarts(text) |-> RuleRank(LineAt(text, i))]

SectionsInOrder(text) ==
    \A rank \in {RankAt(text)} :
       /\ \A i \in DOMAIN rank : rank[i] # 0
       /\ \A i, j \in DOMAIN rank : i < j => rank[i] <= rank[j]
       /\ \A r \in {10, 20, 30, 40, 50} : \E i \in DOMAIN rank : rank[i] = r

\* the rule starts at which a given rule line stands
StartsOf(text, line) == { i \in RuleStarts(text) : LineAt(text, i) = line }

DenyAfterAllow(text, a) ==
    \A m \in 1..Len(a.allowWritePaths), n \in 1..Len(a.denyWritePaths) :
       a.allowWritePaths[m] = a.denyWritePaths[n] =>
          \A al \in {StartsOf(text, RuleLine("allow ", "file-write*", a.allowWritePaths[m]))},
             dl \in {StartsOf(text, RuleLine("deny ", "file-write*", a.denyWritePaths[n]))} :
             /\ al # {}
             /\ dl # {}
             /\ \A i \in al, j \in dl : i < j

\* C10: in every generated profile the rules appear in the order process
\* grants, network, file reads, file writes, unlink; inside the write section
\* the blanket deny comes first, then every write-allow rule, then every
\* write-deny rule; so for a path in both allowWrite and denyWrite the deny rule
\* is present and comes after the allow rule.
C10_SectionOrder ==
    genState = "generated" => SectionsInOrder(profile) /\ DenyAfterAllow(profile, genArgs)

\* C10 witness: a generated profile for a path listed in allowWrite and in denyWrite
C10_Witness ==
    /\ genState = "generated"
    /\ \E m \in 1..Len(genArgs.allowWritePaths), n \in 1..Len(genArgs.denyWritePaths) :
         genArgs.allowWritePaths[m] = genArgs.denyWritePaths[n]

(***************************************************************************)
(* Claims about one invocation of the manager (SpecLife).                  *)
(***************************************************************************)
ChildStarted == child.state # "none"
ValidationFailed == validation # "none" /\ validation # "ok"
NormalisationFailed ==
    /\ host.command # <<>> /\ ~host.resolvable /\ HasLiteral(config.filesystem)
    /\ pc["main"] \notin {"new", "fatal", "execute"}

\* C2: the child is started only after the profile was generated and
\* ValidateProfile returned nil for it; when path normalisation, pattern
\* compilation (profile generation) or validation fails, Execute returns an
\* error and the child is never started.
C2_ValidatedBeforeChild ==
    /\ ChildStarted =>
          /\ genState = "generated" /\ validation = "ok"
          /\ child.validated = "ok" /\ StaticValidate(profile) = "ok"
    /\ (genState = "failed" \/ ValidationFailed \/ NormalisationFailed) =>
          hist.execResult = "error" /\ ~ChildStarted

C2_Witness ==
    /\ ValidationFailed /\ dynamicRan
    /\ hist.execResult = "error" /\ ~ChildStarted /\ pc["main"] = "c_done"

\* the state full teardown leaves: listeners closed, monitor stopped, log
\* file closed, profile file removed
TornDown ==
    /\ \A p \in {"http", "socks"} : listeners[p] # "open"
    /\ monitor.proc # "running"
    /\ ~files.logOpen
    /\ ~files.profile

\* C3: whenever the process exits after Execute wrote the profile, the full
\* teardown has been done (stated for the exits that are not a panic).
C3_TeardownBeforeExit ==
    (process.exited /\ ~process.panicked /\ validation # "none") => TornDown

\* C4: no stop channel is closed twice, so no teardown panics.
C4_NoDoubleClose == ~process.panicked

\* C5: every violation that was on the monitor's channel when Stop was
\* invoked (and is not on the ignore list) is in the log file when the
\* process exits (stated for the invocations that end normally: no signal,
\* Execute returned nil, the caller ran Cleanup and exited).
C5_BufferedViolationsLogged ==
    (/\ process.exited /\ signals.delivered = 0 /\ hist.execResult = "ok"
     /\ hist.stopped /\ mgr.violationLogger # "nil") =>
       \A i \in 1..Len(hist.stopSnapshot) :
          \/ ShouldIgnoreViolation(hist.stopSnapshot[i], config.violations)
          \/ \E j \in 1..Len(files.durableLog) : files.durableLog[j] = hist.stopSnapshot[i]

\* C7: once the child was started, the status the process exits with is the
\* child's exit code (stated for the exits that are not a panic).
C7_StatusIsChildCode ==
    (process.exited /\ ~process.panicked /\ ChildStarted) =>
       child.state = "exited" /\ process.status = ExitStatus(child.code)

ProxyNames == {"HTTP_PROXY", "HTTPS_PROXY", "ALL_PROXY"}
Names(env) == { env[i][1] : i \in 1..Len(env) }
BothProxiesStarted == serving["http"] # "none" /\ serving["socks"] # "none"

\* C8 as stated: the child's environment holds the three proxy variables
\* exactly when both proxies were started, and none of them otherwise.
C8_ProxyVarsIffProxies ==
    ChildStarted =>
       IF BothProxiesStarted THEN ProxyNames \subseteq Names(child.env)
       ELSE ProxyNames \cap Names(child.env) = {}

\* what Execute appended to the inherited environment
Added == SubSeq(child.env, Len(host.environ) + 1, Len(child.env))

\* C8 amended: Execute appends the three proxy variables, pointing at the
\* ports of the two listeners, exactly when both proxies were started; when
\* no proxy runs it appends none, and the child's environment holds such a
\* variable only if the inherited environment did.
C8_ProxyVarsAddedIffProxies ==
    ChildStarted =>
       /\ SubSeq(child.env, 1, Len(host.environ)) = host.environ
       /\ Added[1][1] = "SRT_COMMAND_ID"
       /\ IF BothProxiesStarted
          THEN /\ [i \in 1..3 |-> Added[i + 1][1]] = <<"HTTP_PROXY", "HTTPS_PROXY", "ALL_PROXY">>
               /\ Len(Added) = 4
               /\ Added[2][2][2] = ToString(config.network.httpProxyPort)
               /\ Added[3][2][2] = ToString(config.network.httpProxyPort)
               /\ Added[4][2][2] = ToString(config.network.socksProxyPort)
               /\ config.network.httpProxyPort # 0 /\ config.network.socksProxyPort # 0
          ELSE /\ Len(Added) = 1
               /\ ProxyNames \cap Names(child.env) = ProxyNames \cap Names(host.environ)

C8_Witness ==
    /\ ChildStarted /\ ~BothProxiesStarted
    /\ "HTTP_PROXY" \in Names(child.env)
    /\ "HTTPS_PROXY" \notin Names(child.env)

(***************************************************************************)
(* Further claims about the domain filter (SpecFilter).                    *)
(***************************************************************************)
\* C11: a call whose domain matches neither list returns the default
\* policy: false under deny (so always false with an empty allow list),
\* true under allow (so always true with an empty deny list), and true
\* under any other policy value, which NewDomainFilter takes as allow.
C11_DefaultPolicy ==
    isAllowedResult # "none" =>
       /\ (~DeniedMatch /\ ~AllowedMatch) =>
             (isAllowedResult = "true" <=> filterArgs.defaultPolicy # "deny")
       /\ (filterArgs.defaultPolicy = "deny" /\ filterArgs.allowedDomains = <<>>) =>
             isAllowedResult = "false"
       /\ (filterArgs.defaultPolicy = "allow" /\ filterArgs.deniedDomains = <<>>) =>
             isAllowedResult = "true"
       /\ (filterArgs.defaultPolicy \notin {"allow", "deny"} /\ filterArgs.deniedDomains = <<>>) =>
             isAllowedResult = "true"

C11_Witness ==
    /\ isAllowedResult = "true" /\ filterArgs.defaultPolicy = "block"
    /\ filterArgs.allowedDomains # <<>> /\ filterArgs.deniedDomains # <<>>
    /\ ~DeniedMatch /\ ~AllowedMatch /\ domain # <<>>

\* strings.ToUpper on the letters of the modelled alphabet
ToUpper(s) == [i \in 1..Len(s) |-> IF s[i] = "a" THEN "A" ELSE s[i]]
Answer(d) == IF IsAllowed(Filter, d) THEN "true" ELSE "false"

\* C12: the answer for a domain is the answer for the same domain in upper
\* case, in lower case, and with a ":port" suffix appended.
C12_CaseAndPortInsensitive ==
    isAllowedResult # "none" =>
       /\ isAllowedResult = Answer(ToUpper(domain))
       /\ isAllowedResult = Answer(ToLower(domain))
       /\ isAllowedResult = Answer(domain \o <<":", "4">>)

(***************************************************************************)
(* Claims about configuration overrides (SpecMerge).                       *)
(***************************************************************************)
OnlyAllowedDomainsOverridden ==
    /\ overrideDoc.sections = {"network"}
    /\ overrideDoc.leaves = {<<"network", "allowedDomains">>}

\* C13: with a deny-by-default base and an override that sets nothing but
\* network.allowedDomains, the filter built from the merged configuration
\* answers true only for a domain that matches an allowed pattern.
C13_AllowListOnly ==
    (/\ mergeState = "built" /\ isAllowedResult = "true"
     /\ baseConfig.network.defaultPolicy = "deny"
     /\ OnlyAllowedDomainsOverridden) => AllowedMatch

(***************************************************************************)
(* Claims about glob patterns (SpecGlob).                                  *)
(***************************************************************************)
\* the positions of s a wildcard pattern can end at, read as the claim reads
\* it: "**" (with a '/' after it) any run, "*" a run without '/', "?" one
\* character other than '/', every other character itself
RECURSIVE WildcardEnds(_, _, _, _)
WildcardEnds(p, i, s, starts) ==
    IF i > Len(p) THEN starts
    ELSE IF p[i] = "*" /\ i + 1 <= Len(p) /\ p[i + 1] = "*"
    THEN WildcardEnds(p, IF i + 2 <= Len(p) /\ p[i + 2] = "/" THEN i + 3 ELSE i + 2, s,
                      { j \in 0..Len(s) : \E k \in starts : k <= j })
    ELSE IF p[i] = "*"
    THEN WildcardEnds(p, i + 1, s,
                      { j \in 0..Len(s) :
                          \E k \in starts : k <= j /\ \A n \in (k + 1)..j : s[n] # "/" })
    ELSE IF p[i] = "?"
    THEN WildcardEnds(p, i + 1, s,
                      { j \in 1..Len(s) : j - 1 \in starts /\ s[j] # "/" })
    ELSE WildcardEnds(p, i + 1, s,
                      { j \in 1..Len(s) : j - 1 \in starts /\ s[j] = p[i] })

WildcardMatch(p, s) == Len(s) \in WildcardEnds(p, 1, s, {0})

\* a pattern whose only special characters are '*' and '?'
WildcardOnly(p) == ContainsAny(p, {"*", "?"}) /\ ~ContainsAny(p, {"[", "{"})

\* C14: for a glob pattern made of '*', '?', "**" and ordinary characters the
\* compiled regex matches a path exactly when the pattern does with '*' a run
\* of characters other than '/', '?' one character other than '/' and "**" any
\* run of characters, '/' included.
C14_WildcardSemantics ==
    (globState = "matched" /\ WildcardOnly(globPattern)) =>
        (globMatched <=> WildcardMatch(globPattern, globPath))

C14_Witness ==
    /\ globState = "matched" /\ globMatched
    /\ globPattern = <<"*", "*", "a">>
    /\ globPath = <<"a", "/", "a">>

\* a pattern that opens with a closed brace group, its alternatives and the
\* text S after the group
BraceLed(p) == p # <<>> /\ Head(p) = "{" /\ BraceScan(p, 2, 1)[2] = 0
BraceAlternatives(p) == Split(SubSeq(p, 2, BraceScan(p, 2, 1)[1] - 2), ",")
BraceRest(p) == SubSeq(p, BraceScan(p, 2, 1)[1], Len(p))

\* the pattern q compiles and its regex matches s
CompiledMatch(q, s) ==
    /\ ~GlobToRegex(q).err
    /\ RegexCompiles(GlobToRegex(q).re, 1, 0)
    /\ MatchString(GlobToRegex(q).re, s)

\* an ordinary file name: no glob character, no separator, no dot
PlainName(x) == x # <<>> /\ \A k \in 1..Len(x) : x[k] = "a"

\* C15: a pattern {x1,...,xn}S matches a string iff xiS matches it for some i;
\* in particular, with plain names for the alternatives (as in {a,b}.txt) it
\* matches each name xiS itself.
C15_BraceAlternation ==
    (globState = "matched" /\ BraceLed(globPattern)) =>
       /\ globMatched <=>
             \E i \in 1..Len(BraceAlternatives(globPattern)) :
                 CompiledMatch(BraceAlternatives(globPattern)[i] \o BraceRest(globPattern),
                               globPath)
       /\ (\E i \in 1..Len(BraceAlternatives(globPattern)) :
              /\ PlainName(BraceAlternatives(globPattern)[i])
              /\ globPath = BraceAlternatives(globPattern)[i] \o BraceRest(globPattern))
          => globMatched

\* a '[' with no ']' after it
UnclosedClass(p) ==
    \E i \in 1..Len(p) : p[i] = "[" /\ \A j \in (i + 1)..Len(p) : p[j] # "]"

\* the positions of p inside its character classes, brackets included, read
\* from left to right
RECURSIVE ClassPositions(_, _)
ClassPositions(p, i) ==
    IF i > Len(p) THEN {}
    ELSE IF p[i] = "[" /\ FindClose(p, i + 1) <= Len(p)
    THEN (i..FindClose(p, i + 1)) \cup ClassPositions(p, FindClose(p, i + 1) + 1)
    ELSE ClassPositions(p, i + 1)

\* the nesting depth left at the end of p for a group opened just before j,
\* braces inside character classes not counted; 0 once the group is closed
RECURSIVE OpenDepth(_, _, _)
OpenDepth(p, j, depth) ==
    IF j > Len(p) \/ depth = 0 THEN depth
    ELSE IF j \in ClassPositions(p, 1) THEN OpenDepth(p, j + 1, depth)
    ELSE OpenDepth(p, j + 1, IF p[j] = "{" THEN depth + 1
                             ELSE IF p[j] = "}" THEN depth - 1 ELSE depth)

\* a '{' that opens a group (it is not a member of a character class) and
\* whose matching '}' is missing
UnclosedBrace(p) ==
    \E i \in 1..Len(p) :
        p[i] = "{" /\ i \notin ClassPositions(p, 1) /\ OpenDepth(p, i + 1, 1) # 0

\* C16: for a pattern with a '[' that no ']' follows or with a group-opening
\* '{' whose '}' is missing, GlobToRegex returns an error and the empty
\* pattern, and GenerateSeatbeltProfile, given a list that holds the pattern,
\* returns an error quoting that pattern and no profile text.
C16_UnclosedPatternFails ==
    (globState # "pattern" /\ (UnclosedClass(globPattern) \/ UnclosedBrace(globPattern))) =>
       /\ globRegex.err /\ globRegex.re = <<>>
       /\ globState = "generated" =>
             (globProfile.err /\ globProfile.text = <<>> /\ globProfile.glob = globPattern)

C16_Witness ==
    /\ globState = "generated" /\ globProfile.err
    /\ globPattern = <<"{", "a", ",">>
    /\ globProfile.glob = globPattern

(***************************************************************************)
(* Claims about profile validation (SpecValidate).                         *)
(***************************************************************************)
\* the parenthesis counter after the first k tokens of a text
Balance(text, k) ==
    Cardinality({ i \in 1..k : text[i] = "(" }) - Cardinality({ i \in 1..k : text[i] = ")" })

HasVersion(text) ==
    \E i \in 1..(Len(text) - 2) :
        text[i] = "(" /\ text[i + 1] = "version 1" /\ text[i + 2] = ")"
Balanced(text) ==
    /\ \A k \in 1..Len(text) : Balance(text, k) >= 0
    /\ Balance(text, Len(text)) = 0
HasStatement(text) ==
    \E i \in 1..(Len(text) - 1) : text[i] = "(" /\ text[i + 1] \in {"deny ", "allow "}

\* C17: a profile without the version declaration, with unbalanced
\* parentheses or without an allow/deny statement is rejected and sandbox-exec
\* has not been invoked; sandbox-exec is invoked exactly when the three static
\* checks pass.
C17_StaticBeforeDynamic ==
    genState = "validated" =>
       /\ (~HasVersion(profile) \/ ~Balanced(profile) \/ ~HasStatement(profile)) =>
             (validation \notin {"ok", "none", "sandbox-exec test failed"} /\ ~dynamicRan)
       /\ dynamicRan <=> (HasVersion(profile) /\ Balanced(profile) /\ HasStatement(profile))

C17_Witness ==
    /\ genState = "validated" /\ ~dynamicRan
    /\ validation = "unbalanced parentheses"
    /\ HasVersion(profile) /\ HasStatement(profile)
    /\ Balance(profile, Len(profile)) = 0

(***************************************************************************)
(* Claims about violation events (SpecViolation).                          *)
(***************************************************************************)
Markers == {"file-read", "file-write", "network"}
HasMarker(msg, m) == \E i \in 1..Len(msg) : msg[i] = m

\* the class of an event: the operation it carries, "other" when it carries none
ClassOf(v) == IF v.operation = "" THEN "other" ELSE v.operation

\* the last run of characters of msg that holds no blank, <<>> if msg is blank
LastToken(msg) ==
    IF \A i \in 1..Len(msg) : msg[i] = " " THEN <<>>
    ELSE LET e == CHOOSE i \in 1..Len(msg) :
                     msg[i] # " " /\ \A k \in (i + 1)..Len(msg) : msg[k] = " "
             b == CHOOSE j \in 1..e :
                     /\ \A k \in j..e : msg[k] # " "
                     /\ (j = 1 \/ msg[j - 1] = " ")
         IN SubSeq(msg, b, e)

\* the event the reader has just put on the channel, and the line it came from
Sent == violations'[Len(violations')]

\* C18: the event sent for a decoded line is in one of the classes file-read,
\* file-write, network, other; the class is that of a marker occurring in the
\* message, other exactly when none occurs; the target is the last
\* whitespace-delimited token of the message.
C18_Classified ==
    [][(pc["reader"] = "send" /\ pc'["reader"] = "scan") =>
          /\ ClassOf(Sent) \in Markers \cup {"other"}
          /\ ClassOf(Sent) \in Markers => HasMarker(locals.line.message, ClassOf(Sent))
          /\ ClassOf(Sent) = "other" <=>
                ~\E m \in Markers : HasMarker(locals.line.message, m)
          /\ Sent.target = LastToken(locals.line.message)]_vars

C18_Witness ==
    /\ violations # <<>>
    /\ violations[1].operation = "network"
    /\ violations[1].target = <<"e">>

\* some pattern listed under the process of v, or under "*", is a substring
\* of the target of v
Ignored(v) ==
    \E e \in config.violations :
       /\ e.key \in {v.process, "*"}
       /\ \E i \in 1..Len(e.patterns) : Contains(v.target, e.patterns[i])

Consumed == violations # <<>> /\ violations' = Tail(violations)

C20_ConfigReadOnly ==
    [][/\ config' = config
       /\ (hist'.dryRun = "ok" /\ genState' = "generated") =>
             /\ genArgs'.denyReadPaths = hist'.dryRunPaths.denyRead
             /\ genArgs'.allowWritePaths = hist'.dryRunPaths.allowWrite
             /\ genArgs'.allowUnlinkPaths = hist'.dryRunPaths.allowUnlink]_vars

(***************************************************************************)
(* Claims about the correlation identifier                                 *)
(***************************************************************************)
\* C21: two distinct invocations of the program, two with the same process
\* id included, never receive the same correlation identifier
C21_UniqueCommandID ==
    \A i, j \in 1..Len(invocations) :
        i # j => invocations[i].commandID # invocations[j].commandID

(***************************************************************************)
(* Claims about the merge of configurations                                *)
(***************************************************************************)
\* C22: MergeConfigs follows the documented override semantics - a field the
\* override leaves unset keeps the base value, a field the override sets (to
\* an empty array or to anything else) takes the override's value
C22_OverrideSemantics ==
    mergeState \in {"merged", "built"} =>
        \A l \in Leaves :
            mergedConfig[l[1]][l[2]] =
                IF l \in overrideDoc.leaves THEN overrideDoc.val[l[1]][l[2]]
                ELSE baseConfig[l[1]][l[2]]

\* C23: the process flags the settings file sets are honoured - after Load
\* each flag the file gives has the file's value, false included
C23_ProcessFlagsHonoured ==
    loadState = "loaded" =>
        \A f \in fileDoc.processKeys : loadedConfig.process[f] = fileDoc.val.process[f]

(***************************************************************************)
(* Claims about the violation stream                                       *)
(***************************************************************************)
\* the events of a sequence of violations are in the order of the stream,
\* none of them twice
Ascending(vs) == \A i, j \in 1..Len(vs) : i < j => vs[i].id < vs[j].id

\* C24: violations reach the sinks in the order the log stream emitted them -
\* the durable log and the debug stream hold events in stream order, none
\* twice, and every event still on the channel is later than those written
C24_InStreamOrder ==
    /\ Ascending(files.durableLog)
    /\ Ascending(files.debugStream)
    /\ Ascending(files.durableLog \o violations)
    /\ Ascending(files.debugStream \o violations)

\* three events, all of them kept, have reached both sinks
C24_Witness ==
    /\ Len(files.durableLog) = 3
    /\ Len(files.debugStream) = 3

\* C25: after Stop the reader loop exits and closes the violations channel,
\* and the consumer loop then terminates, also when the channel was full
C25_StopTerminates ==
    hist.stopped ~> (monitor.chanClosed /\ pc["reader"] = "done" /\ pc["consumer"] = "done")

(***************************************************************************)
(* Claims about the rules of the profile                                   *)
(***************************************************************************)
\* a glob entry written relative to the working directory: ./...
RelativeGlob(p) == Len(p) >= 3 /\ p[1] = "." /\ p[2] = "/" /\ WildcardOnly(p)

\* C26: a relative glob entry of a path list yields a rule whose pattern
\* matches the absolute paths of the files the entry names under the working
\* directory: whenever the entry matches a relative path, the rule's regex
\* matches that path made absolute
C26_RelativeGlobMatchesAbsolute ==
    (globState = "generated" /\ ~globProfile.err /\ RelativeGlob(globPattern)) =>
        \A s \in GlobPaths :
            WildcardMatch(globPattern, s) => MatchString(globRegex.re, Abs(s))

\* the filter of the rule written for entry a matches the literal path d: a
\* subpath filter matches d and everything below it, a regex filter what the
\* compiled pattern matches
Covers(a, d) ==
    IF ContainsGlob(a) THEN CompiledMatch(a, d)
    ELSE /\ Len(a) <= Len(d)
         /\ SubSeq(d, 1, Len(a)) = a
         /\ (Len(a) = Len(d) \/ d[Len(a) + 1] = "/")

\* no rule that allows op on an entry of list stands after the rule that
\* denies writes to d, if the entry's filter matches d
NotReallowed(text, d, op, list) ==
    \A m \in 1..Len(list) :
       Covers(list[m], d) =>
          \A dl \in StartsOf(text, RuleLine("deny ", "file-write*", d)),
             al \in StartsOf(text, RuleLine("allow ", op, list[m])) : al < dl

\* C27: a path of denyWrite stays protected - with the last matching rule
\* deciding, no rule after its write-deny rule allows a write-class operation
\* (file-write-unlink included) on it, whatever allowWrite and allowUnlink hold
C27_DenyWriteProtected ==
    genState = "generated" =>
        \A n \in 1..Len(genArgs.denyWritePaths) :
           ~ContainsGlob(genArgs.denyWritePaths[n]) =>
              /\ NotReallowed(profile, genArgs.denyWritePaths[n], "file-write*",
                              genArgs.allowWritePaths)
              /\ NotReallowed(profile, genArgs.denyWritePaths[n], "file-write-unlink",
                              genArgs.allowUnlinkPaths)

(***************************************************************************)
(* Claims about the listeners and the child                                *)
(***************************************************************************)
\* C28: NewManager is all-or-nothing with respect to listeners - when it has
\* returned an error, no proxy listener created during the call is open
C28_NoListenerAfterError ==
    (pc["main"] = "fatal" /\ ~process.exited) =>
        \A p \in {"http", "socks"} : listeners[p] # "open"

\* C29: when a signal has triggered the teardown and the program has exited,
\* the confined child has terminated
C29_ChildEndedAtSignalExit ==
    (process.exited /\ ~process.panicked /\ "sig" \in hist.teardown) =>
        child.state # "running"

(***************************************************************************)
(* Claims about nested groups                                              *)
(***************************************************************************)
\* the braces of p up to position k: opened minus closed
BraceDepth(p, k) ==
    Cardinality({ i \in 1..k : p[i] = "{" }) - Cardinality({ i \in 1..k : p[i] = "}" })

\* a pattern without character classes whose braces are balanced
BalancedBraces(p) ==
    /\ ~ContainsAny(p, {"[", "]"})
    /\ ContainsAny(p, {"{"})
    /\ \A k \in 1..Len(p) : BraceDepth(p, k) >= 0
    /\ BraceDepth(p, Len(p)) = 0

\* C30: every glob pattern with balanced braces compiles without error,
\* nested groups included, and {a,{a,.}} matches each of its alternatives
C30_BalancedBracesCompile ==
    /\ (globState # "pattern" /\ BalancedBraces(globPattern)) => ~globRegex.err
    /\ (/\ globState \in {"matched", "regexError"}
        /\ globPattern = <<"{", "a", ",", "{", "a", ",", ".", "}", "}">>
        /\ globPath \in { <<"a">>, <<".">> }) => globMatched

====
